---------------------------- MODULE Spec2Model ----------------------------
(***************************************************************************)
(* Path rendering and requirements traceability (autospec).                *)
(*                                                                         *)
(* JSON data is modelled as tagged values <<tag, payload>>, x[1] the tag   *)
(* and x[2] the payload: "missing" (an absent dict key), "null", "num",    *)
(* "str" (a sequence of one-character strings), "list" (a sequence of      *)
(* values) and "dict" (a function from Keys to values, absent keys mapped  *)
(* to MISSING).                                                            *)
(* Python indices are 0-based; the sequences here are 1-based.             *)
(***************************************************************************)
EXTENDS Integers, Sequences, FiniteSets, TLC

VARIABLES
    pc,           \* position of the run: "input", then "done"
    raised,       \* name of the exception that ended the operation, "" if none
    path,         \* a Path: the list of steps given to the renderer / splitter
    lines,        \* result of build_step_strings_for_path
    start_name,   \* split_path keyword argument
    start_id,     \* split_path keyword argument
    paths,        \* result of split_path
    cases,        \* input of dedupe_cases
    unique,       \* result of dedupe_cases
    models_data,  \* the loaded models JSON
    req_map,      \* result of build_requirements_map
    steps_data,   \* the loaded steps JSON, annotated in place
    runs,         \* number of annotate_steps calls made on steps_data
    args,         \* command line of the doorstop wrapper being run
    registry,     \* the catalog registry file
    catalog,      \* catalog.yml: locations and items
    item_files,   \* item files of the document directories, by item id
    result,       \* what the `doorstop add` subprocess gave back
    doorstop_calls, \* number of `doorstop add` invocations made
    aliases       \* places holding the very list object an index entry holds

vars == <<pc, raised, path, lines, start_name, start_id, paths, cases,
          unique, models_data, req_map, steps_data, runs,
          args, registry, catalog, item_files, result, doorstop_calls,
          aliases>>

---------------------------------------------------------------------------
(* JSON values *)

Keys == {"id", "modelName", "name", "actions", "requirements", "steps",
         "models", "edges", "vertices"}

MISSING == <<"missing", <<>>>>
NULL == <<"null", <<>>>>
Num(n) == <<"num", n>>
Str(s) == <<"str", s>>
List(q) == <<"list", q>>
Dict(r) == <<"dict", [k \in Keys |-> IF k \in DOMAIN r THEN r[k] ELSE MISSING]>>

\* d.get(k) with no default: None when the key is absent
Get(d, k) == IF d[2][k][1] = "missing" THEN NULL ELSE d[2][k]
\* d.get(k, default)
GetOr(d, k, default) == IF d[2][k][1] = "missing" THEN default ELSE d[2][k]
\* k in d
HasKey(d, k) == d[2][k][1] # "missing"
\* d[k] = x
SetKey(d, k, x) == [d EXCEPT ![2][k] = x]

\* Python truthiness of a value
Truthy(x) ==
    CASE x[1] = "missing" -> FALSE
      [] x[1] = "null" -> FALSE
      [] x[1] = "num" -> x[2] # 0
      [] x[1] = "str" -> x[2] # <<>>
      [] x[1] = "list" -> x[2] # <<>>
      [] x[1] = "dict" -> \E k \in Keys : x[2][k][1] # "missing"

\* A finished call: the exception it raised ("" when it returned) and its value.
Returned(value) == [raised |-> "", value |-> value]
Raised(exc) == [raised |-> exc, value |-> <<>>]

IsList(x) == x[1] = "list"
IsDict(x) == x[1] = "dict"
IsStr(x) == x[1] = "str"

---------------------------------------------------------------------------
(* str methods, on sequences of one-character strings *)

LowerCase == <<"a", "b", "c", "d", "e", "f", "g", "h", "i", "j", "k", "l", "m",
               "n", "o", "p", "q", "r", "s", "t", "u", "v", "w", "x", "y", "z">>
UpperCase == <<"A", "B", "C", "D", "E", "F", "G", "H", "I", "J", "K", "L", "M",
               "N", "O", "P", "Q", "R", "S", "T", "U", "V", "W", "X", "Y", "Z">>

IsUpper(c) == \E i \in DOMAIN UpperCase : UpperCase[i] = c
IsLower(c) == \E i \in DOMAIN LowerCase : LowerCase[i] = c
ToUpper(c) == IF IsLower(c)
              THEN UpperCase[CHOOSE i \in DOMAIN LowerCase : LowerCase[i] = c]
              ELSE c
ToLower(c) == IF IsUpper(c)
              THEN LowerCase[CHOOSE i \in DOMAIN UpperCase : UpperCase[i] = c]
              ELSE c
IsSpace(c) == c \in {" ", "\t", "\n"}

\* s.startswith(p)
StartsWith(s, p) == Len(s) >= Len(p) /\ SubSeq(s, 1, Len(p)) = p
\* s[n:] for n >= 0
Drop(s, n) == SubSeq(s, n + 1, Len(s))
\* s.lower()
Lower(s) == [i \in DOMAIN s |-> ToLower(s[i])]
\* s.capitalize(): first character upper-cased, the rest lower-cased
Capitalize(s) == [i \in DOMAIN s |-> IF i = 1 THEN ToUpper(s[i]) ELSE ToLower(s[i])]

RECURSIVE LStrip(_)
LStrip(s) == IF s # <<>> /\ IsSpace(s[1]) THEN LStrip(Tail(s)) ELSE s
RECURSIVE RStrip(_)
RStrip(s) == IF s # <<>> /\ IsSpace(s[Len(s)])
             THEN RStrip(SubSeq(s, 1, Len(s) - 1)) ELSE s
\* s.strip()
Strip(s) == RStrip(LStrip(s))
\* s.rstrip(c): every trailing occurrence of the character c is removed
RECURSIVE RStripChar(_, _)
RStripChar(s, c) == IF s # <<>> /\ s[Len(s)] = c
                    THEN RStripChar(SubSeq(s, 1, Len(s) - 1), c) ELSE s

\* s.split(c) for a one-character separator: empty pieces are kept
RECURSIVE Split(_, _)
Split(s, c) ==
    IF \E i \in DOMAIN s : s[i] = c
    THEN LET i == CHOOSE i \in DOMAIN s : s[i] = c /\ \A j \in 1..(i - 1) : s[j] # c
         IN <<SubSeq(s, 1, i - 1)>> \o Split(Drop(s, i), c)
    ELSE <<s>>

\* sep.join(parts)
RECURSIVE Join(_, _)
Join(parts, sep) ==
    IF parts = <<>> THEN <<>>
    ELSE IF Len(parts) = 1 THEN parts[1]
    ELSE parts[1] \o sep \o Join(Tail(parts), sep)

\* sub in s
Contains(s, sub) ==
    \E i \in 0..(Len(s) - Len(sub)) : SubSeq(s, i + 1, i + Len(sub)) = sub

\* [x for x in q if x] on a sequence of strings
RECURSIVE NonEmpty(_)
NonEmpty(q) == IF q = <<>> THEN <<>>
               ELSE IF q[1] = <<>> THEN NonEmpty(Tail(q))
               ELSE <<q[1]>> \o NonEmpty(Tail(q))

\* str(n) of an integer
RECURSIVE NatDigits(_)
NatDigits(n) ==
    LET d == <<"0", "1", "2", "3", "4", "5", "6", "7", "8", "9">>
    IN IF n < 10 THEN <<d[n + 1]>> ELSE NatDigits(n \div 10) \o <<d[(n % 10) + 1]>>
IntStr(n) == IF n < 0 THEN <<"-">> \o NatDigits(0 - n) ELSE NatDigits(n)

\* str(x) and repr(x) of a JSON value (strings without quote characters)
RECURSIVE PyRepr(_)
PyRepr(x) ==
    CASE x[1] = "null" -> <<"N", "o", "n", "e">>
      [] x[1] = "num" -> IntStr(x[2])
      [] x[1] = "str" -> <<"'">> \o x[2] \o <<"'">>
      [] x[1] = "list" -> <<"[">> \o Join([i \in DOMAIN x[2] |-> PyRepr(x[2][i])],
                                         <<",", " ">>) \o <<"]">>
PyStr(x) == IF x[1] = "str" THEN x[2] ELSE PyRepr(x)

\* the text of a character sequence, as a TLA+ string
RECURSIVE StrOf(_)
StrOf(s) ==
    IF s = <<>> THEN ""
    ELSE IF Len(s) = 1 THEN s[1]
    ELSE LET h == Len(s) \div 2
         IN StrOf(SubSeq(s, 1, h)) \o StrOf(SubSeq(s, h + 1, Len(s)))

---------------------------------------------------------------------------
(* path_cleanup.py: classification *)

\* Outcomes that are not JSON values: Python's None and a raised exception.
NONE == NULL
RAISE == <<"raise", <<>>>>

\* step.get("name", "").startswith(...) raises AttributeError when the key
\* "name" is present and its value is not a str (None, a number, a list).
NameRaises(step) == HasKey(step, "name") /\ ~IsStr(step[2]["name"])

\* Both are used only on steps for which NameRaises is false.
_is_edge(step) == StartsWith(GetOr(step, "name", Str(<<>>))[2], <<"e", "_">>)

_is_vertex(step) == StartsWith(GetOr(step, "name", Str(<<>>))[2], <<"v", "_">>)

\* Nearest vertex strictly before idx (scan idx-1 down to the first position).
\* The scan stops at the first vertex; a step it reaches whose name is not a
\* str raises.
_find_prev_vertex(p, idx) ==
    LET vs == {j \in 1..(idx - 1) : ~NameRaises(p[j]) /\ _is_vertex(p[j])}
        hit == IF vs = {} THEN 0 ELSE CHOOSE j \in vs : \A k \in vs : k <= j
    IN IF \E j \in (hit + 1)..(idx - 1) : NameRaises(p[j]) THEN RAISE
       ELSE IF hit = 0 THEN NONE ELSE p[hit]


\* As _find_next_vertex, taking the last vertex after idx instead of the nearest.
_find_next_vertex_Farthest(p, idx) ==
    LET vs == {j \in (idx + 1)..Len(p) : ~NameRaises(p[j]) /\ _is_vertex(p[j])}
        hit == IF vs = {} THEN Len(p) + 1 ELSE CHOOSE j \in vs : \A k \in vs : k <= j
    IN IF \E j \in (idx + 1)..Len(p) : NameRaises(p[j]) THEN RAISE
       ELSE IF hit = Len(p) + 1 THEN NONE ELSE p[hit]

\* As _find_next_vertex, looking at the step right after idx only.
_find_next_vertex_Adjacent(p, idx) ==
    IF idx + 1 > Len(p) THEN NONE
    ELSE IF NameRaises(p[idx + 1]) THEN RAISE
    ELSE IF _is_vertex(p[idx + 1]) THEN p[idx + 1]
    ELSE NONE

\* Nearest vertex strictly after idx (scan idx+1 up to the last position).
_find_next_vertex(p, idx) ==
    LET vs == {j \in (idx + 1)..Len(p) : ~NameRaises(p[j]) /\ _is_vertex(p[j])}
        hit == IF vs = {} THEN Len(p) + 1 ELSE CHOOSE j \in vs : \A k \in vs : j <= k
    IN IF \E j \in (idx + 1)..(hit - 1) : NameRaises(p[j]) THEN RAISE
       ELSE IF hit = Len(p) + 1 THEN NONE ELSE p[hit]

---------------------------------------------------------------------------
(* path_cleanup.py: text building *)

\* Order-preserving removal of empty strings and of repeated strings.
RECURSIVE DedupeStrings(_, _)
DedupeStrings(raw, seen) ==
    IF raw = <<>> THEN <<>>
    ELSE IF raw[1] # <<>> /\ raw[1] \notin seen
    THEN <<raw[1]>> \o DedupeStrings(Tail(raw), seen \cup {raw[1]})
    ELSE DedupeStrings(Tail(raw), seen)

\* [p.strip() for p in r.split(",") if p.strip()]
CommaParts(r) ==
    LET ps == Split(r, ",") IN NonEmpty([i \in DOMAIN ps |-> Strip(ps[i])])

\* The strings one entry of a requirements list contributes to raw.
ReqEntry(r) ==
    IF r[1] = "null" THEN <<>>
    ELSE IF IsStr(r) THEN CommaParts(r[2])
    ELSE <<Strip(PyStr(r))>>

RECURSIVE ReqEntries(_)
ReqEntries(reqs) ==
    IF reqs = <<>> THEN <<>> ELSE ReqEntry(reqs[1]) \o ReqEntries(Tail(reqs))

\* The strings one source step contributes to raw.
ReqSource(src) ==
    IF ~Truthy(src) THEN <<>>
    ELSE LET got == Get(src, "requirements")
             reqs == IF Truthy(got) THEN got ELSE List(<<>>)
         IN ReqEntries(IF IsList(reqs) THEN reqs[2] ELSE <<reqs>>)

RECURSIVE ReqSources(_)
ReqSources(sources) ==
    IF sources = <<>> THEN <<>> ELSE ReqSource(sources[1]) \o ReqSources(Tail(sources))

\* As _normalise_requirements, without the removal of repeated strings.
_normalise_requirements_NoDedupe(sources) == ReqSources(sources)

_normalise_requirements(sources) == DedupeStrings(ReqSources(sources), {})

\* The parts one action contributes.
ActionPart(act) ==
    IF ~IsStr(act) THEN <<>>
    ELSE LET cleaned == RStripChar(Strip(act[2]), ";")
         IN IF cleaned = <<>> THEN <<>>
            ELSE IF Contains(cleaned, <<"J", "s", "o", "n", "C", "o", "n", "t", "e", "x", "t">>)
            THEN <<>>
            ELSE <<cleaned>>

RECURSIVE ActionParts(_)
ActionParts(acts) ==
    IF acts = <<>> THEN <<>> ELSE ActionPart(acts[1]) \o ActionParts(Tail(acts))

\* Raises TypeError when `actions` is a non-zero number: it is not iterable.
\* A str is iterated character by character.
_summarise_actions(step) ==
    LET got == Get(step, "actions")
        actions == IF Truthy(got) THEN got ELSE List(<<>>)
    IN IF actions[1] = "num" THEN Raised("TypeError")
       ELSE LET acts == IF IsStr(actions)
                        THEN [i \in DOMAIN actions[2] |-> Str(<<actions[2][i]>>)]
                        ELSE actions[2]
                parts == ActionParts(acts)
            IN Returned(IF parts # <<>> THEN Join(parts, <<",", " ">>)
                        ELSE <<"N", "o", "n", "e">>)

\* re.split(r"(?<!^)(?=[A-Z])", seg): cut before every upper-case letter that
\* is not the first character.
RECURSIVE CamelSplit(_)
CamelSplit(seg) ==
    IF \E i \in 2..Len(seg) : IsUpper(seg[i])
    THEN LET i == CHOOSE i \in 2..Len(seg) :
                      IsUpper(seg[i]) /\ \A j \in 2..(i - 1) : ~IsUpper(seg[j])
         IN <<SubSeq(seg, 1, i - 1)>> \o CamelSplit(Drop(seg, i - 1))
    ELSE <<seg>>

\* The words of the segments, in order.
RECURSIVE VertexWords(_)
VertexWords(segments) ==
    IF segments = <<>> THEN <<>>
    ELSE LET parts == CamelSplit(segments[1])
             stripped == NonEmpty([i \in DOMAIN parts |-> Strip(parts[i])])
         IN [i \in DOMAIN stripped |-> Capitalize(stripped[i])]
            \o VertexWords(Tail(segments))

_format_vertex_description(raw_name) ==
    LET name == IF StartsWith(raw_name, <<"v", "_">>) THEN Drop(raw_name, 2)
                ELSE IF StartsWith(raw_name, <<"v">>) /\ Len(raw_name) > 1
                        /\ IsUpper(raw_name[2])
                THEN Drop(raw_name, 1)
                ELSE raw_name
        segments == NonEmpty(Split(name, "_"))
        words == VertexWords(segments)
    IN IF words # <<>> THEN Join(words, <<" ">>) ELSE raw_name

\* As _format_edge_description, with every segment capitalised.
_format_edge_description_AllCapitalized(raw_name) ==
    LET name == IF StartsWith(raw_name, <<"e", "_">>) THEN Drop(raw_name, 2)
                ELSE raw_name
        parts == NonEmpty(Split(name, "_"))
    IN IF parts = <<>> THEN raw_name
       ELSE Join([i \in DOMAIN parts |-> Capitalize(parts[i])], <<" ">>)

_format_edge_description(raw_name) ==
    LET name == IF StartsWith(raw_name, <<"e", "_">>) THEN Drop(raw_name, 2)
                ELSE raw_name
        parts == NonEmpty(Split(name, "_"))
    IN IF parts = <<>> THEN raw_name
       ELSE Join([i \in DOMAIN parts |->
                     IF i = 1 THEN Capitalize(parts[i]) ELSE Lower(parts[i])],
                 <<" ">>)

---------------------------------------------------------------------------
(* path_cleanup.py: build_step_strings_for_path *)


\* As EdgeLine, with the changed clause before the target.
EdgeLine_ChangedFirst(p, idx, step_num) ==
    LET step == p[idx]
        prev_vertex == _find_prev_vertex(p, idx)
        next_vertex == _find_next_vertex(p, idx)
    IN IF prev_vertex = RAISE \/ next_vertex = RAISE THEN Raised("AttributeError")
       ELSE LET target_vertex == IF Truthy(next_vertex) THEN next_vertex ELSE prev_vertex
                target_name == IF Truthy(target_vertex)
                               THEN _format_vertex_description(target_vertex[2]["name"][2])
                               ELSE <<"<", "n", "o", " ", "v", "e", "r", "t", "e", "x", ">">>
                changed == _summarise_actions(step)
                human_edge == _format_edge_description(step[2]["name"][2])
            IN IF changed.raised # "" THEN changed
               ELSE Returned(<<"S", "t", "e", "p", " ", "[">> \o IntStr(step_num)
                             \o <<"]", " ">> \o human_edge
                             \o <<" ", "-", ">", " ", "c", "h", "a", "n", "g", "e", "d", ":",
                                  " ">> \o changed.value
                             \o <<" ", "-", ">", " ", "r", "e", "s", "u", "l", "t", "s", " ",
                                  "i", "n", " ">> \o target_name
                             \o <<" ", "w", "i", "t", "h", " ", "d", "a", "t", "a">>)

\* The line of the edge at position idx, numbered step_num; RAISE-marked
\* outcomes carry the exception name.
EdgeLine(p, idx, step_num) ==
    LET step == p[idx]
        prev_vertex == _find_prev_vertex(p, idx)
        next_vertex == _find_next_vertex(p, idx)
    IN IF prev_vertex = RAISE \/ next_vertex = RAISE THEN Raised("AttributeError")
       ELSE LET target_vertex == IF Truthy(next_vertex) THEN next_vertex ELSE prev_vertex
                target_name == IF Truthy(target_vertex)
                               THEN _format_vertex_description(target_vertex[2]["name"][2])
                               ELSE <<"<", "n", "o", " ", "v", "e", "r", "t", "e", "x", ">">>
                changed == _summarise_actions(step)
                reqs == _normalise_requirements(<<step, target_vertex>>)
                req_part == IF reqs # <<>>
                            THEN <<" ", "-", ">", " ", "m", "e", "e", "t", "s", " ", "r", "e",
                                   "q", "u", "i", "r", "e", "m", "e", "n", "t", "s", ":", " ">>
                                 \o Join(reqs, <<",", " ">>)
                            ELSE <<>>
                human_edge == _format_edge_description(step[2]["name"][2])
            IN IF changed.raised # "" THEN changed
               ELSE Returned(<<"S", "t", "e", "p", " ", "[">> \o IntStr(step_num)
                             \o <<"]", " ">> \o human_edge
                             \o <<" ", "-", ">", " ", "r", "e", "s", "u", "l", "t", "s", " ",
                                  "i", "n", " ">> \o target_name
                             \o <<" ", "w", "i", "t", "h", " ", "d", "a", "t", "a">>
                             \o <<" ", "-", ">", " ", "c", "h", "a", "n", "g", "e", "d", ":",
                                  " ">> \o changed.value
                             \o req_part)


\* As RenderEdges, numbering an edge line by the position of the edge.
RECURSIVE RenderEdges_ByPosition(_, _, _, _)
RenderEdges_ByPosition(p, idx, step_num, out) ==
    IF idx > Len(p)
    THEN Returned(Append(out, <<"S", "t", "e", "p", " ", "[">> \o IntStr(step_num + 1)
                               \o <<"]", " ", "E", "N", "D", " ", "T", "E", "S", "T">>))
    ELSE IF NameRaises(p[idx]) THEN Raised("AttributeError")
    ELSE IF ~_is_edge(p[idx]) THEN RenderEdges_ByPosition(p, idx + 1, step_num, out)
    ELSE LET line == EdgeLine(p, idx, idx)
         IN IF line.raised # "" THEN line
            ELSE RenderEdges_ByPosition(p, idx + 1, step_num + 1, Append(out, line.value))

\* The loop over enumerate(path), from position idx on, then the END line.
RECURSIVE RenderEdges(_, _, _, _)
RenderEdges(p, idx, step_num, out) ==
    IF idx > Len(p)
    THEN Returned(Append(out, <<"S", "t", "e", "p", " ", "[">> \o IntStr(step_num + 1)
                               \o <<"]", " ", "E", "N", "D", " ", "T", "E", "S", "T">>))
    ELSE IF NameRaises(p[idx]) THEN Raised("AttributeError")
    ELSE IF ~_is_edge(p[idx]) THEN RenderEdges(p, idx + 1, step_num, out)
    ELSE LET line == EdgeLine(p, idx, step_num + 1)
         IN IF line.raised # "" THEN line
            ELSE RenderEdges(p, idx + 1, step_num + 1, Append(out, line.value))

build_step_strings_for_path(p) ==
    LET first_vertex == _find_next_vertex(p, 0)
    IN IF first_vertex = RAISE THEN Raised("AttributeError")
       ELSE IF first_vertex # NONE
       THEN RenderEdges(p, 1, 1, <<<<"S", "t", "e", "p", " ", "[", "1", "]", " ", "S", "T",
                                     "A", "R", "T", " ", "T", "E", "S", "T">>>>)
       ELSE RenderEdges(p, 1, 0, <<>>)

---------------------------------------------------------------------------
(* path_cleanup.py: split_path *)

\* As is_start, matching the start name also when an id is given.
is_start_NameToo(step, name, id) ==
    (Truthy(id) /\ Get(step, "id") = id) \/ Get(step, "name") = name

\* A start step: by id when a start id is given and not empty, by name otherwise.
is_start(step, name, id) ==
    IF Truthy(id) THEN Get(step, "id") = id ELSE Get(step, "name") = name

\* The loop over steps from position i on, then the final flush of `current`.
RECURSIVE SplitLoop(_, _, _, _, _, _)
SplitLoop(steps, i, name, id, out, current) ==
    IF i > Len(steps)
    THEN IF current # <<>> THEN Append(out, current) ELSE out
    ELSE IF is_start(steps[i], name, id) /\ current # <<>>
    THEN SplitLoop(steps, i + 1, name, id, Append(out, current), <<steps[i]>>)
    ELSE SplitLoop(steps, i + 1, name, id, out, Append(current, steps[i]))

\* As SplitLoop, without the final flush.
RECURSIVE SplitLoop_NoFlush(_, _, _, _, _, _)
SplitLoop_NoFlush(steps, i, name, id, out, current) ==
    IF i > Len(steps)
    THEN out
    ELSE IF is_start(steps[i], name, id) /\ current # <<>>
    THEN SplitLoop_NoFlush(steps, i + 1, name, id, Append(out, current), <<steps[i]>>)
    ELSE SplitLoop_NoFlush(steps, i + 1, name, id, out, Append(current, steps[i]))


\* As split_path, closing the sub-path after a start step instead of before.
RECURSIVE SplitLoop_CloseAfter(_, _, _, _, _, _)
SplitLoop_CloseAfter(steps, i, name, id, out, current) ==
    IF i > Len(steps)
    THEN IF current # <<>> THEN Append(out, current) ELSE out
    ELSE IF IF Truthy(id) THEN Get(steps[i], "id") = id ELSE Get(steps[i], "name") = name
    THEN SplitLoop_CloseAfter(steps, i + 1, name, id,
                              Append(out, Append(current, steps[i])), <<>>)
    ELSE SplitLoop_CloseAfter(steps, i + 1, name, id, out, Append(current, steps[i]))

split_path_CloseAfter(steps, name, id) ==
    IF steps = <<>> THEN <<>> ELSE SplitLoop_CloseAfter(steps, 1, name, id, <<>>, <<>>)

split_path_NoFlush(steps, name, id) ==
    IF steps = <<>> THEN <<>> ELSE SplitLoop_NoFlush(steps, 1, name, id, <<>>, <<>>)

split_path(steps, name, id) ==
    IF steps = <<>> THEN <<>> ELSE SplitLoop(steps, 1, name, id, <<>>, <<>>)

---------------------------------------------------------------------------
(* path_cleanup.py: dedupe_cases *)

\* key = (name, tuple(steps)) after the normalisation to strings
CaseKey(case) ==
    LET name == PyStr(GetOr(case, "name", Str(<<>>)))
        steps == GetOr(case, "steps", List(<<>>))
        strs == IF ~IsList(steps) THEN <<PyStr(steps)>>
                ELSE [i \in DOMAIN steps[2] |-> PyStr(steps[2][i])]
    IN <<name, strs>>

\* The loop over cases from position i on.
RECURSIVE DedupeLoop(_, _, _, _)
DedupeLoop(cs, i, seen, out) ==
    IF i > Len(cs) THEN out
    ELSE LET key == CaseKey(cs[i])
         IN IF key \in seen THEN DedupeLoop(cs, i + 1, seen, out)
            ELSE DedupeLoop(cs, i + 1, seen \cup {key}, Append(out, cs[i]))

\* As DedupeLoop, with the key never added to `seen`.
RECURSIVE DedupeLoop_NoAdd(_, _, _, _)
DedupeLoop_NoAdd(cs, i, seen, out) ==
    IF i > Len(cs) THEN out
    ELSE LET key == CaseKey(cs[i])
         IN IF key \in seen THEN DedupeLoop_NoAdd(cs, i + 1, seen, out)
            ELSE DedupeLoop_NoAdd(cs, i + 1, seen, Append(out, cs[i]))

dedupe_cases_NoAdd(cs) == DedupeLoop_NoAdd(cs, 1, {}, <<>>)

dedupe_cases(cs) == DedupeLoop(cs, 1, {}, <<>>)

\* paths_to_cases for one path: {"name": "", "steps": lines}
CaseOf(ls) == Dict([name |-> Str(<<>>), steps |-> List([i \in DOMAIN ls |-> Str(ls[i])])])

---------------------------------------------------------------------------
(* merge_requirements.py: the requirements index *)

\* The keys of a dict in a fixed order, as strings.
KeyOrder == <<"id", "modelName", "name", "actions", "requirements", "steps",
              "models", "edges", "vertices">>

RECURSIVE DictKeys(_, _)
DictKeys(d, i) ==
    IF i > Len(KeyOrder) THEN <<>>
    ELSE (IF HasKey(d, KeyOrder[i]) THEN <<Str(<<KeyOrder[i]>>)>> ELSE <<>>)
         \o DictKeys(d, i + 1)

\* The items `for item in x` visits; TypeError when x is not iterable.
\* A str gives its characters and a dict gives its keys: all of them strings.
IterItems(x) ==
    CASE x[1] = "list" -> Returned(x[2])
      [] x[1] = "str" -> Returned([i \in DOMAIN x[2] |-> Str(<<x[2][i]>>)])
      [] x[1] = "dict" -> Returned(DictKeys(x, 1))
      [] OTHER -> Raised("TypeError")

\* A list or a dict cannot be part of a dict key (TypeError: unhashable).
Hashable(x) == x[1] \notin {"list", "dict"}

\* The first item of a list that is a dict with a "models" key, if any.
RECURSIVE FirstWithModels(_, _)
FirstWithModels(items, i) ==
    IF i > Len(items) THEN List(<<>>)
    ELSE IF IsDict(items[i]) /\ HasKey(items[i], "models") THEN items[i][2]["models"]
    ELSE FirstWithModels(items, i + 1)

_extract_models_list(data) ==
    IF IsDict(data) THEN GetOr(data, "models", List(<<>>))
    ELSE IF IsList(data) THEN FirstWithModels(data[2], 1)
    ELSE List(<<>>)

\* req_map[key] = value
Put(m, key, value) ==
    [k \in DOMAIN m \cup {key} |-> IF k = key THEN value ELSE m[k]]

\* As ElementEntry, keeping the entry a key already has.
ElementEntry_FirstWins(model_name, element, m) ==
    IF ~IsDict(element) THEN Raised("AttributeError")
    ELSE LET element_id == Get(element, "id")
             reqs == Get(element, "requirements")
         IN IF ~Truthy(element_id) THEN Returned(m)
            ELSE IF ~IsList(reqs) THEN Returned(m)
            ELSE IF ~Hashable(model_name) \/ ~Hashable(element_id)
            THEN Raised("TypeError")
            ELSE IF <<model_name, element_id>> \in DOMAIN m THEN Returned(m)
            ELSE Returned(Put(m, <<model_name, element_id>>, reqs[2]))

\* As ElementEntry, recording an empty list for requirements that are no list.
ElementEntry_NoListCheck(model_name, element, m) ==
    IF ~IsDict(element) THEN Raised("AttributeError")
    ELSE LET element_id == Get(element, "id")
             reqs == Get(element, "requirements")
         IN IF ~Truthy(element_id) THEN Returned(m)
            ELSE IF ~Hashable(model_name) \/ ~Hashable(element_id)
            THEN Raised("TypeError")
            ELSE Returned(Put(m, <<model_name, element_id>>,
                              IF IsList(reqs) THEN reqs[2] ELSE <<>>))

\* The body of the loop over the edges, and of the loop over the vertices,
\* of one model: the index after the element has been visited.
ElementEntry(model_name, element, m) ==
    IF ~IsDict(element) THEN Raised("AttributeError")
    ELSE LET element_id == Get(element, "id")
             reqs == Get(element, "requirements")
         IN IF ~Truthy(element_id) THEN Returned(m)
            ELSE IF ~IsList(reqs) THEN Returned(m)
            ELSE IF ~Hashable(model_name) \/ ~Hashable(element_id)
            THEN Raised("TypeError")
            ELSE Returned(Put(m, <<model_name, element_id>>, reqs[2]))

\* The loop over the elements of one kind, from position i on.
RECURSIVE ElementsLoop(_, _, _, _)
ElementsLoop(model_name, elements, i, m) ==
    IF i > Len(elements) THEN Returned(m)
    ELSE LET r == ElementEntry(model_name, elements[i], m)
         IN IF r.raised # "" THEN r
            ELSE ElementsLoop(model_name, elements, i + 1, r.value)

\* for element in model.get(kind, []): ...
ElementsOf(model, kind, model_name, m) ==
    LET items == IterItems(GetOr(model, kind, List(<<>>)))
    IN IF items.raised # "" THEN items
       ELSE ElementsLoop(model_name, items.value, 1, m)

\* The body of the loop over the models: edges first, then vertices.
ModelEntry(model, m) ==
    IF ~IsDict(model) THEN Raised("AttributeError")
    ELSE LET model_name == Get(model, "name")
         IN IF ~Truthy(model_name) THEN Returned(m)
            ELSE LET e == ElementsOf(model, "edges", model_name, m)
                 IN IF e.raised # "" THEN e
                    ELSE ElementsOf(model, "vertices", model_name, e.value)

\* The loop over models_list, from position i on.
RECURSIVE ModelsLoop(_, _, _)
ModelsLoop(models, i, m) ==
    IF i > Len(models) THEN Returned(m)
    ELSE LET r == ModelEntry(models[i], m)
         IN IF r.raised # "" THEN r ELSE ModelsLoop(models, i + 1, r.value)

build_requirements_map(data) ==
    LET items == IterItems(_extract_models_list(data))
    IN IF items.raised # "" THEN items
       ELSE ModelsLoop(items.value, 1, [k \in {} |-> <<>>])

---------------------------------------------------------------------------
(* merge_requirements.py: annotating steps *)

\* An operation that raised after having changed part of its argument in
\* place: the exception and the argument as it then stands.
RaisedWith(exc, value) == [raised |-> exc, value |-> value]

\* As _annotate_step, with the key built as (step_id, model_name).
_annotate_step_SwappedKey(step, m) ==
    LET step_id == Get(step, "id")
        model_name == Get(step, "modelName")
        key == <<step_id, model_name>>
    IN IF step_id[1] \in {"missing", "null"} \/ model_name[1] \in {"missing", "null"}
       THEN Returned(SetKey(step, "requirements", List(<<>>)))
       ELSE IF ~Hashable(model_name) \/ ~Hashable(step_id) THEN Raised("TypeError")
       ELSE Returned(SetKey(step, "requirements",
                            List(IF key \in DOMAIN m THEN m[key] ELSE <<>>)))

\* As _annotate_step, extending the list the step already has.
_annotate_step_Extend(step, m) ==
    LET step_id == Get(step, "id")
        model_name == Get(step, "modelName")
        key == <<model_name, step_id>>
        old == IF IsList(Get(step, "requirements")) THEN Get(step, "requirements")[2]
               ELSE <<>>
    IN IF step_id[1] \in {"missing", "null"} \/ model_name[1] \in {"missing", "null"}
       THEN Returned(SetKey(step, "requirements", List(old)))
       ELSE IF ~Hashable(model_name) \/ ~Hashable(step_id) THEN Raised("TypeError")
       ELSE Returned(SetKey(step, "requirements",
                            List(old \o (IF key \in DOMAIN m THEN m[key] ELSE <<>>))))

\* The step after _annotate_step has set its "requirements"; step.get gives
\* None for a missing field, and a list or a dict in the key is unhashable.
\* As _annotate_step, building the step anew from its id, its modelName and
\* its requirements.
_annotate_step_KeysOnly(step, m) ==
    LET step_id == Get(step, "id")
        model_name == Get(step, "modelName")
        key == <<model_name, step_id>>
        kept == Dict([id |-> step[2]["id"], modelName |-> step[2]["modelName"]])
    IN IF step_id[1] \in {"missing", "null"} \/ model_name[1] \in {"missing", "null"}
       THEN Returned(SetKey(kept, "requirements", List(<<>>)))
       ELSE IF ~Hashable(model_name) \/ ~Hashable(step_id) THEN Raised("TypeError")
       ELSE Returned(SetKey(kept, "requirements",
                            List(IF key \in DOMAIN m THEN m[key] ELSE <<>>)))

_annotate_step(step, m) ==
    LET step_id == Get(step, "id")
        model_name == Get(step, "modelName")
        key == <<model_name, step_id>>
    IN IF step_id[1] \in {"missing", "null"} \/ model_name[1] \in {"missing", "null"}
       THEN Returned(SetKey(step, "requirements", List(<<>>)))
       ELSE IF ~Hashable(model_name) \/ ~Hashable(step_id) THEN Raised("TypeError")
       ELSE Returned(SetKey(step, "requirements",
                            List(IF key \in DOMAIN m THEN m[key] ELSE <<>>)))

\* for step in path: if isinstance(step, dict): _annotate_step(step, req_map)
\* from position i on, over the items of a list.
RECURSIVE AnnotatePath(_, _, _)
AnnotatePath(p, i, m) ==
    IF i > Len(p) THEN Returned(p)
    ELSE IF ~IsDict(p[i]) THEN AnnotatePath(p, i + 1, m)
    ELSE LET r == _annotate_step(p[i], m)
         IN IF r.raised # "" THEN RaisedWith(r.raised, p)
            ELSE AnnotatePath([p EXCEPT ![i] = r.value], i + 1, m)

\* As AnnotatePaths, visiting the first path only.
AnnotatePaths_FirstOnly(ps, i, m) ==
    IF i > Len(ps) \/ ~IsList(ps[i]) THEN Returned(ps)
    ELSE LET r == AnnotatePath(ps[i][2], 1, m)
         IN [raised |-> r.raised, value |-> [ps EXCEPT ![i] = List(r.value)]]

\* for path in steps_list: for step in path: ... from position i on. An
\* entry that is a str or a dict is iterated too (characters, keys: no
\* dict among them); an entry that is not iterable raises TypeError.
RECURSIVE AnnotatePaths(_, _, _)
AnnotatePaths(ps, i, m) ==
    IF i > Len(ps) THEN Returned(ps)
    ELSE IF IsList(ps[i])
    THEN LET r == AnnotatePath(ps[i][2], 1, m)
             ps2 == [ps EXCEPT ![i] = List(r.value)]
         IN IF r.raised # "" THEN RaisedWith(r.raised, ps2)
            ELSE AnnotatePaths(ps2, i + 1, m)
    ELSE IF IterItems(ps[i]).raised # "" THEN RaisedWith("TypeError", ps)
    ELSE AnnotatePaths(ps, i + 1, m)

\* The two branches on a list of steps or of paths: multiple paths when the
\* list is non-empty and its first item is a list, a single path otherwise.
AnnotateList(items, m) ==
    IF Len(items) > 0 /\ IsList(items[1]) THEN AnnotatePaths(items, 1, m)
    ELSE AnnotatePath(items, 1, m)


\* As annotate_steps, taking an object without a "steps" array for a step.
annotate_steps_ObjectAsStep(data, m) ==
    IF IsDict(data) /\ HasKey(data, "steps") /\ IsList(Get(data, "steps"))
    THEN LET r == AnnotateList(Get(data, "steps")[2], m)
         IN [raised |-> r.raised, value |-> SetKey(data, "steps", List(r.value))]
    ELSE IF IsDict(data) THEN _annotate_step(data, m)
    ELSE IF IsList(data)
    THEN LET r == AnnotateList(data[2], m)
         IN [raised |-> r.raised, value |-> List(r.value)]
    ELSE Returned(data)

\* steps_data after annotate_steps, which changes it in place and returns it.
annotate_steps(data, m) ==
    IF IsDict(data) /\ HasKey(data, "steps")
    THEN IF IsList(Get(data, "steps"))
         THEN LET r == AnnotateList(Get(data, "steps")[2], m)
              IN [raised |-> r.raised, value |-> SetKey(data, "steps", List(r.value))]
         ELSE Returned(data)
    ELSE IF IsList(data)
    THEN LET r == AnnotateList(data[2], m)
         IN [raised |-> r.raised, value |-> List(r.value)]
    ELSE Returned(data)

\* As list_copy, handing back the list object it was given.
list_copy_SameObject(q) == [items |-> q, same |-> TRUE]

\* list(reqs) in build_requirements_map and list(requirements) in
\* _annotate_step: a new list object with the items of the argument.
list_copy(q) == [items |-> q, same |-> FALSE]

\* The places that hold the very list object an entry of the index m holds,
\* after the lists of one kind of place were stored: the model element an
\* entry was built from (kind "model", build_requirements_map), the steps
\* that were given an entry (kind "step", _annotate_step). A place is named
\* by its kind and its (modelName, id) key.
Aliases(kind, m) == {<<kind, k>> : k \in {j \in DOMAIN m : list_copy(m[j]).same}}

---------------------------------------------------------------------------
(* Bounds and the state before any operation has run *)

MaxPathLen == 3

EmptyMap == [k \in {} |-> <<>>]

\* Nothing loaded yet by the autospec tools; no doorstop wrapper run yet: no
\* registry file, an empty catalog, no items.
Init ==
    /\ pc = "input"
    /\ raised = ""
    /\ path = <<>>
    /\ lines = <<>>
    /\ start_name = Str(<<"v", "_", "S", "t", "a", "r", "t">>)
    /\ start_id = NONE
    /\ paths = <<>>
    /\ cases = <<>>
    /\ unique = <<>>
    /\ models_data = NULL
    /\ req_map = EmptyMap
    /\ steps_data = NULL
    /\ runs = 0
    /\ args = [tool |-> "", dry_run |-> FALSE, no_catalog |-> FALSE,
               prefix |-> <<>>, title |-> <<>>, type |-> <<>>]
    /\ registry = [file |-> "absent", last_number |-> 0]
    /\ catalog = [locations |-> <<>>, items |-> <<>>]
    /\ item_files = EmptyMap
    /\ result = [returncode |-> 0, created |-> <<>>, stdout_id |-> <<>>]
    /\ doorstop_calls = 0
    /\ aliases = {}

---------------------------------------------------------------------------
(* Rendering one path: json.load gives the path, describe mode renders it *)

vStart == Dict([name |-> Str(<<"v", "_", "S", "t", "a", "r", "t">>)])
eLoad == Dict([name |-> Str(<<"e", "_", "l", "o", "a", "d", "_", "d", "e", "f", "a", "u",
                              "l", "t", "_", "d", "a", "t", "a">>),
               actions |-> List(<<Str(<<"x", "=", "1", ";">>)>>)])
vLoaded == Dict([name |-> Str(<<"v", "_", "L", "o", "a", "d", "e", "d">>)])
eReq == Dict([name |-> Str(<<"e", "_", "g", "o">>),
              requirements |-> List(<<Str(<<"R", "-", "1", ",", " ", "R", "-", "2">>)>>)])
stepOther == Dict([name |-> Str(<<"x">>)])
stepNoName == Dict([id |-> Str(<<"n", "1">>)])
stepNullName == Dict([name |-> NULL])
stepNumName == Dict([name |-> Num(7)])

RenderSteps == {vStart, eLoad, vLoaded, eReq, stepOther, stepNoName,
                stepNullName, stepNumName}

\* One more step of the JSON path is read.
AddStep(s) ==
    /\ pc = "input"
    /\ Len(path) < MaxPathLen
    /\ path' = Append(path, s)
    /\ UNCHANGED <<pc, raised, lines, start_name, start_id, paths, cases, unique,
                   models_data, req_map, steps_data, runs, aliases>>
    /\ UNCHANGED <<args, registry, catalog, item_files, result, doorstop_calls>>

\* build_step_strings_for_path(path)
Render ==
    /\ pc = "input"
    /\ LET r == build_step_strings_for_path(path)
       IN /\ lines' = r.value
          /\ raised' = r.raised
    /\ pc' = "done"
    /\ UNCHANGED <<path, start_name, start_id, paths, cases, unique,
                   models_data, req_map, steps_data, runs, aliases>>
    /\ UNCHANGED <<args, registry, catalog, item_files, result, doorstop_calls>>

NextRender ==
    \/ \E s \in RenderSteps : AddStep(s)
    \/ Render

SpecRender == Init /\ [][NextRender]_vars

---------------------------------------------------------------------------
(* Splitting one long path: mode=split of main *)

sStart == Dict([id |-> Str(<<"n", "0">>), name |-> Str(<<"v", "_", "S", "t", "a", "r", "t">>)])
sEdge == Dict([id |-> Str(<<"e", "1">>), name |-> Str(<<"e", "_", "g", "o">>)])
sA == Dict([id |-> Str(<<"n", "1">>), name |-> Str(<<"v", "_", "A">>)])
sStartN1 == Dict([id |-> Str(<<"n", "1">>), name |-> Str(<<"v", "_", "S", "t", "a", "r", "t">>)])

SplitSteps == {sStart, sEdge, sA, sStartN1, vStart, stepNoName}

StartNames == {Str(<<"v", "_", "S", "t", "a", "r", "t">>), Str(<<"v", "_", "A">>)}
StartIds == {NONE, Str(<<>>), Str(<<"n", "1">>)}

\* split_path(path, start_name=name, start_id=id)
SplitPath(name, id) ==
    /\ pc = "input"
    /\ start_name' = name
    /\ start_id' = id
    /\ paths' = split_path(path, name, id)
    /\ pc' = "done"
    /\ UNCHANGED <<raised, path, lines, cases, unique, models_data, req_map,
                   steps_data, runs, aliases>>
    /\ UNCHANGED <<args, registry, catalog, item_files, result, doorstop_calls>>

NextSplit ==
    \/ \E s \in SplitSteps : AddStep(s)
    \/ \E name \in StartNames, id \in StartIds : SplitPath(name, id)

SpecSplit == Init /\ [][NextSplit]_vars

---------------------------------------------------------------------------
(* Deduplicating test cases *)

MaxCases == 3

caseA == Dict([name |-> Str(<<>>), steps |-> List(<<Str(<<"a">>)>>)])
caseA_NoName == Dict([steps |-> List(<<Str(<<"a">>)>>)])
caseA_Scalar == Dict([name |-> Str(<<>>), steps |-> Str(<<"a">>)])
caseNum == Dict([name |-> Str(<<>>), steps |-> List(<<Num(1)>>)])
caseNumStr == Dict([name |-> Str(<<>>), steps |-> List(<<Str(<<"1">>)>>)])
caseNamed == Dict([name |-> Str(<<"t">>), steps |-> List(<<Str(<<"a">>)>>)])
caseNullName == Dict([name |-> NULL, steps |-> List(<<>>)])
caseNoneName == Dict([name |-> Str(<<"N", "o", "n", "e">>)])

CaseSamples == {caseA, caseA_NoName, caseA_Scalar, caseNum, caseNumStr, caseNamed,
                caseNullName, caseNoneName}

AddCase(c) ==
    /\ pc = "input"
    /\ Len(cases) < MaxCases
    /\ cases' = Append(cases, c)
    /\ UNCHANGED <<pc, raised, path, lines, start_name, start_id, paths, unique,
                   models_data, req_map, steps_data, runs, aliases>>
    /\ UNCHANGED <<args, registry, catalog, item_files, result, doorstop_calls>>

\* unique = dedupe_cases(cases)
Dedupe ==
    /\ pc = "input"
    /\ unique' = dedupe_cases(cases)
    /\ pc' = "done"
    /\ UNCHANGED <<raised, path, lines, start_name, start_id, paths, cases,
                   models_data, req_map, steps_data, runs, aliases>>
    /\ UNCHANGED <<args, registry, catalog, item_files, result, doorstop_calls>>

NextDedupe ==
    \/ \E c \in CaseSamples : AddCase(c)
    \/ Dedupe

SpecDedupe == Init /\ [][NextDedupe]_vars

---------------------------------------------------------------------------
(* Properties of the renderer, the splitter and the deduplicator *)

\* The concatenation of a sequence of sequences, in order.
RECURSIVE Concat(_)
Concat(qs) == IF qs = <<>> THEN <<>> ELSE qs[1] \o Concat(Tail(qs))

\* The step's name is a string with the given prefix.
NameHasPrefix(step, prefix) ==
    HasKey(step, "name") /\ IsStr(step[2]["name"]) /\ StartsWith(step[2]["name"][2], prefix)

\* The number of lines the line-count rule gives for a path: k + 2 with a
\* vertex, k + 1 without, k the number of steps named e_...
ExpectedLineCount(p) ==
    Cardinality({i \in DOMAIN p : NameHasPrefix(p[i], <<"e", "_">>)})
    + (IF \E i \in DOMAIN p : NameHasPrefix(p[i], <<"v", "_">>) THEN 2 ELSE 1)

\* C1: for every path of object-shaped steps the renderer returns exactly
\* k + 2 lines when the path has a vertex and k + 1 lines when it has none,
\* k being the number of steps whose name starts with e_.
C1_LineCount ==
    pc = "done" => raised = "" /\ Len(lines) = ExpectedLineCount(path)

\* C1, on the paths in which every name that is present is a string: the
\* renderer returns and the line count is as stated.
C1_LineCountStringNames ==
    (pc = "done" /\ \A i \in DOMAIN path : ~NameRaises(path[i]))
        => raised = "" /\ Len(lines) = ExpectedLineCount(path)

\* The path with every missing or non-string name replaced by the empty name.
WithEmptyNames(p) ==
    [i \in DOMAIN p |->
        IF HasKey(p[i], "name") /\ IsStr(p[i][2]["name"]) THEN p[i]
        ELSE SetKey(p[i], "name", Str(<<>>))]

\* C7: classifying a step never raises; a step whose name is missing or is
\* not a string is treated as having the empty name (neither edge nor
\* vertex), and rendering a path that contains such a step completes with
\* the lines of the path in which those names are empty.
C7_MalformedNameTolerated ==
    (pc = "done" /\ \E i \in DOMAIN path :
                        ~HasKey(path[i], "name") \/ ~IsStr(path[i][2]["name"]))
        => /\ raised = ""
           /\ lines = build_step_strings_for_path(WithEmptyNames(path)).value


\* The fixed texts of the lines.
NOVERTEX == <<"<", "n", "o", " ", "v", "e", "r", "t", "e", "x", ">">>

RESULTSIN == <<" ", "-", ">", " ", "r", "e", "s", "u", "l", "t", "s", " ", "i", "n", " ">>

WITHDATA == <<" ", "w", "i", "t", "h", " ", "d", "a", "t", "a">>

CHANGED == <<" ", "-", ">", " ", "c", "h", "a", "n", "g", "e", "d", ":", " ">>

MEETS == <<" ", "-", ">", " ", "m", "e", "e", "t", "s", " ", "r", "e", "q", "u", "i", "r", "e", "m", "e", "n", "t", "s", ":", " ">>

STARTTEST == <<"S", "T", "A", "R", "T", " ", "T", "E", "S", "T">>

ENDTEST == <<"E", "N", "D", " ", "T", "E", "S", "T">>

\* The renderer has returned the lines of the path.
Rendered == pc = "done" /\ raised = ""

\* The positions of the edges and of the vertices of a path.
EdgePositions(p) == {i \in DOMAIN p : NameHasPrefix(p[i], <<"e", "_">>)}

VertexPositions(p) == {i \in DOMAIN p : NameHasPrefix(p[i], <<"v", "_">>)}

\* The position of the k-th edge of a path.
NthEdge(p, k) ==
    CHOOSE i \in EdgePositions(p) :
        Cardinality({j \in EdgePositions(p) : j <= i}) = k

\* The number of lines before the first edge line: the START line, if any.
StartLines(p) == IF VertexPositions(p) # {} THEN 1 ELSE 0

\* The target vertex of the edge at position i: the nearest vertex after
\* it, else the nearest vertex before it, else none.
TargetOf(p, i) ==
    LET after == {j \in VertexPositions(p) : j > i}
        before == {j \in VertexPositions(p) : j < i}
    IN IF after # {} THEN p[CHOOSE j \in after : \A k \in after : j <= k]
       ELSE IF before # {} THEN p[CHOOSE j \in before : \A k \in before : k <= j]
       ELSE NONE

TargetDisplay(p, i) ==
    IF TargetOf(p, i) = NONE THEN NOVERTEX
    ELSE _format_vertex_description(TargetOf(p, i)[2]["name"][2])

\* The optional requirements clause of the edge at position i.
RequirementsClause(p, i) ==
    LET reqs == _normalise_requirements(<<p[i], TargetOf(p, i)>>)
    IN IF reqs = <<>> THEN <<>>
       ELSE MEETS \o Join(reqs, <<",", " ">>)

\* 'Step [n] '
StepPrefix(n) == <<"S", "t", "e", "p", " ", "[">> \o IntStr(n) \o <<"]", " ">>

\* C15: every line rendered for an edge has the form 'Step [n] <edge
\* display name> -> results in <target display name> with data -> changed:
\* <changed clause><optional requirements clause>', one such line per edge
\* in path order; the path [v_Start, e_load_default_data with actions
\* ['x=1;'], v_Loaded] gives exactly 'Step [1] START TEST', 'Step [2] Load
\* default data -> results in Loaded with data -> changed: x=1' and
\* 'Step [3] END TEST'.
C15_EdgeLineForm ==
    Rendered =>
        /\ Len(lines) = StartLines(path) + Cardinality(EdgePositions(path)) + 1
        /\ \A k \in 1..Cardinality(EdgePositions(path)) :
               LET i == NthEdge(path, k)
               IN lines[StartLines(path) + k] =
                      StepPrefix(StartLines(path) + k)
                      \o _format_edge_description(path[i][2]["name"][2])
                      \o RESULTSIN \o TargetDisplay(path, i)
                      \o WITHDATA \o CHANGED
                      \o _summarise_actions(path[i]).value
                      \o RequirementsClause(path, i)
        /\ path = <<vStart, eLoad, vLoaded>>
               => /\ Len(lines) = 3
                  /\ StrOf(lines[1]) = "Step [1] START TEST"
                  /\ StrOf(lines[2]) = "Step [2] Load default data -> results in Loaded with data -> changed: x=1"
                  /\ StrOf(lines[3]) = "Step [3] END TEST"

\* The path of the example has been rendered.
C15_Witness ==
    /\ Rendered
    /\ path = <<vStart, eLoad, vLoaded>>
    /\ Len(lines) = 3
    /\ StrOf(lines[2]) = "Step [2] Load default data -> results in Loaded with data -> changed: x=1"

\* C19: the target in the line of the edge at position i is the vertex of
\* the smallest position greater than i if a vertex follows the edge, else
\* the vertex of the largest position less than i, and the literal
\* '<no vertex>' when the path has no vertex.
C19_TargetVertex ==
    Rendered =>
        \A k \in 1..Cardinality(EdgePositions(path)) :
            LET i == NthEdge(path, k)
                line == lines[StartLines(path) + k]
            IN /\ Contains(line, RESULTSIN \o TargetDisplay(path, i) \o WITHDATA \o CHANGED)
               /\ VertexPositions(path) = {}
                      => Contains(line, RESULTSIN \o NOVERTEX \o WITHDATA)

\* An edge followed by two different vertices, and so targeting the first.
C19_Witness ==
    /\ Rendered
    /\ EdgePositions(path) = {1}
    /\ VertexPositions(path) = {2, 3}
    /\ path[2] # path[3]
    /\ Contains(lines[2], RESULTSIN \o _format_vertex_description(path[2][2]["name"][2])
                          \o WITHDATA)

\* C20: the lines of a rendered path are numbered 1, 2, ..., L in output
\* order; the first line is 'Step [1] START TEST' iff the path has a
\* vertex, and the last line is 'Step [L] END TEST', one more than the
\* number of the line before it (the only line, numbered 1, when the path
\* has neither vertex nor edge).
C20_ConsecutiveNumbers ==
    Rendered =>
        /\ Len(lines) >= 1
        /\ \A k \in DOMAIN lines : StartsWith(lines[k], StepPrefix(k))
        /\ (lines[1] = StepPrefix(1) \o STARTTEST) <=> (VertexPositions(path) # {})
        /\ lines[Len(lines)] = StepPrefix(Len(lines)) \o ENDTEST
        /\ \A k \in 1..(Len(lines) - 1) : lines[k] # StepPrefix(k) \o ENDTEST
        /\ (VertexPositions(path) = {} /\ EdgePositions(path) = {})
               => lines = <<StepPrefix(1) \o ENDTEST>>

\* A path of a vertex and two edges: four lines.
C20_Witness ==
    /\ Rendered
    /\ Len(path) = 3
    /\ Cardinality(EdgePositions(path)) = 2
    /\ VertexPositions(path) # {}
    /\ Len(lines) = 4

\* C2: concatenating the sub-paths returned by split_path, in order,
\* reproduces the original step sequence, for every start matcher.
C2_SplitRoundTrip ==
    pc = "done" => Concat(paths) = path

\* A split by id and a split by name, each into several sub-paths.
C2_Witness ==
    /\ pc = "done"
    /\ Len(paths) >= 2
    /\ Len(paths[1]) >= 2


\* The start predicate: with a start id configured (given and not empty) the
\* step's id is that id; with none, the step's name is the start name.
MatchesStart(step) ==
    IF start_id # NONE /\ start_id # Str(<<>>)
    THEN step[2]["id"] = start_id
    ELSE step[2]["name"] = start_name

\* C13: in the result of split_path every sub-path is non-empty, a step
\* matching the start predicate is found at the head of a sub-path only, and
\* every sub-path but the first begins with a matching step; an empty input
\* gives an empty result, an input without a matching step one sub-path
\* equal to the input.
C13_SubPathShape ==
    pc = "done" =>
        /\ \A k \in DOMAIN paths : paths[k] # <<>>
        /\ \A k \in DOMAIN paths : \A j \in DOMAIN paths[k] :
               (j > 1 => ~MatchesStart(paths[k][j]))
        /\ \A k \in DOMAIN paths : (k > 1 => MatchesStart(paths[k][1]))
        /\ (path = <<>> => paths = <<>>)
        /\ (path # <<>> /\ \A i \in DOMAIN path : ~MatchesStart(path[i]))
               => paths = <<path>>

\* A split in two: the first sub-path begins with a step that does not
\* match, the second holds the matching step and a step after it.
C13_Witness ==
    /\ pc = "done"
    /\ Len(paths) = 2
    /\ ~MatchesStart(paths[1][1])
    /\ Len(paths[2]) = 2

\* The positions of the input at which a sub-path after the first begins.
RECURSIVE SplitPositions(_)
SplitPositions(k) ==
    IF k <= 1 THEN {}
    ELSE SplitPositions(k - 1) \cup {1 + Len(Concat(SubSeq(paths, 1, k - 1)))}

C3_DedupeFirstOccurrences ==
    pc = "done" =>
        LET first == {i \in DOMAIN cases :
                         \A j \in 1..(i - 1) : CaseKey(cases[j]) # CaseKey(cases[i])}
            nth(n) == CHOOSE i \in first : Cardinality({j \in first : j <= i}) = n
        IN /\ Len(unique) = Cardinality(first)
           /\ \A n \in DOMAIN unique : unique[n] = cases[nth(n)]
           /\ \A m, n \in DOMAIN unique :
                  m # n => CaseKey(unique[m]) # CaseKey(unique[n])
           /\ \A i \in DOMAIN cases :
                  \E n \in DOMAIN unique : CaseKey(unique[n]) = CaseKey(cases[i])

\* A later duplicate was dropped and two distinct keys were kept.
C3_Witness ==
    /\ pc = "done"
    /\ Len(unique) = 2
    /\ Len(cases) = 3
    /\ CaseKey(cases[1]) = CaseKey(cases[3])
    /\ cases[1] # cases[3]

---------------------------------------------------------------------------
(* Building the index from a models document *)

MaxDocSize == 4

ReqsA == <<Str(<<"R", "-", "1">>), Str(<<"R", "-", "2">>)>>
ReqsB == <<Str(<<"R", "-", "3">>)>>
idA == Str(<<"a">>)
idB == Str(<<"b">>)

ElementSamples ==
    {Dict([id |-> idA, requirements |-> List(ReqsA)]),
     Dict([id |-> idA, requirements |-> List(ReqsB)]),
     Dict([id |-> idA]),
     Dict([id |-> idA, requirements |-> Str(<<"R", "-", "1">>)]),
     Dict([id |-> idB, requirements |-> List(ReqsA)]),
     Dict([id |-> Str(<<>>), requirements |-> List(ReqsA)])}

ModelNames == {MISSING, Str(<<"M">>), Str(<<"N">>)}

\* The example of the documentation: model M, edge e1 with R-1 and R-2.
ExampleModels ==
    Dict([models |-> List(<<Dict([name |-> Str(<<"M">>),
                                  edges |-> List(<<Dict([id |-> Str(<<"e", "1">>),
                                                         requirements |-> List(ReqsA)])>>)])>>)])

\* Documents read as a whole: inputs of no supported shape, the empty
\* supported ones, and models with an empty name or an element without id.
OtherModelShapes ==
    {ExampleModels,
     Dict([models |-> List(<<Dict([name |-> Str(<<>>),
                                  edges |-> List(<<Dict([id |-> idA,
                                                         requirements |-> List(ReqsA)])>>)])>>)]),
     Dict([models |-> List(<<Dict([name |-> Str(<<"M">>),
                                  vertices |-> List(<<Dict([requirements |-> List(ReqsB)]),
                                                      Dict([id |-> NULL,
                                                            requirements |-> List(ReqsB)]),
                                                      Dict([id |-> idB,
                                                            requirements |-> NULL])>>)])>>)]),
     Num(3), NULL, Str(<<"x">>),
     Dict([name |-> Str(<<"M">>)]),
     Dict([models |-> Num(5)]),
     Dict([models |-> NULL]),
     Dict([models |-> Str(<<"a", "b">>)]),
     Dict([models |-> Dict([name |-> Str(<<"M">>)])]),
     Dict([models |-> List(<<>>)]),
     List(<<>>),
     List(<<Num(1), Dict([name |-> Str(<<"M">>)])>>),
     List(<<Dict([models |-> Num(5)])>>)}

\* The number of models and elements of a {"models": [...]} document.
DocSize(doc) ==
    LET ms == doc[2]["models"][2]
        n(model, kind) == IF HasKey(model, kind) THEN Len(model[2][kind][2]) ELSE 0
        RECURSIVE sum(_)
        sum(i) == IF i > Len(ms) THEN 0
                  ELSE 1 + n(ms[i], "edges") + n(ms[i], "vertices") + sum(i + 1)
    IN sum(1)

IsModelsDoc(doc) == IsDict(doc) /\ IsList(doc[2]["models"])

\* The document gets one more model, with no "edges" and no "vertices" yet.
AddModel(name) ==
    /\ pc = "input"
    /\ \/ /\ models_data = NULL
          /\ models_data' = Dict([models |-> List(<<Dict([name |-> name])>>)])
       \/ /\ IsModelsDoc(models_data)
          /\ DocSize(models_data) < MaxDocSize
          /\ models_data' = [models_data EXCEPT ![2]["models"][2] = Append(@, Dict([name |-> name]))]
    /\ UNCHANGED <<pc, raised, path, lines, start_name, start_id, paths, cases,
                   unique, req_map, steps_data, runs, aliases>>
    /\ UNCHANGED <<args, registry, catalog, item_files, result, doorstop_calls>>

\* The last model gets one more edge or vertex.
AddElement(kind, element) ==
    /\ pc = "input"
    /\ IsModelsDoc(models_data)
    /\ DocSize(models_data) < MaxDocSize
    /\ LET ms == models_data[2]["models"][2]
           last == ms[Len(ms)]
           old == GetOr(last, kind, List(<<>>))[2]
       IN /\ kind = "edges" => ~HasKey(last, "vertices")
          /\ models_data' = [models_data EXCEPT ![2]["models"][2][Len(ms)] =
                                SetKey(last, kind, List(Append(old, element)))]
    /\ UNCHANGED <<pc, raised, path, lines, start_name, start_id, paths, cases,
                   unique, req_map, steps_data, runs, aliases>>
    /\ UNCHANGED <<args, registry, catalog, item_files, result, doorstop_calls>>

\* The document is an array holding the {"models": ...} object.
WrapModels ==
    /\ pc = "input"
    /\ IsModelsDoc(models_data)
    /\ models_data' = List(<<Dict([name |-> Str(<<"M">>)]), models_data>>)
    /\ pc' = "loaded"
    /\ UNCHANGED <<raised, path, lines, start_name, start_id, paths, cases,
                   unique, req_map, steps_data, runs, aliases>>
    /\ UNCHANGED <<args, registry, catalog, item_files, result, doorstop_calls>>

\* The document is of another shape.
LoadModels(doc) ==
    /\ pc = "input"
    /\ models_data = NULL
    /\ models_data' = doc
    /\ pc' = "loaded"
    /\ UNCHANGED <<raised, path, lines, start_name, start_id, paths, cases,
                   unique, req_map, steps_data, runs, aliases>>
    /\ UNCHANGED <<args, registry, catalog, item_files, result, doorstop_calls>>

\* req_map = build_requirements_map(models_data)
BuildMap ==
    /\ pc \in {"input", "loaded"}
    /\ LET r == build_requirements_map(models_data)
       IN /\ raised' = r.raised
          /\ req_map' = IF r.raised = "" THEN r.value ELSE req_map
    /\ pc' = "done"
    /\ UNCHANGED <<path, lines, start_name, start_id, paths, cases, unique,
                   models_data, steps_data, runs>>
    /\ aliases' = Aliases("model", req_map')
    /\ UNCHANGED <<args, registry, catalog, item_files, result, doorstop_calls>>

NextIndex ==
    \/ \E name \in ModelNames : AddModel(name)
    \/ \E kind \in {"edges", "vertices"}, element \in ElementSamples :
           AddElement(kind, element)
    \/ WrapModels
    \/ \E doc \in OtherModelShapes : LoadModels(doc)
    \/ BuildMap

SpecIndex == Init /\ [][NextIndex]_vars

---------------------------------------------------------------------------
(* Properties of the requirements index *)

\* x is an object holding a "models" array.
HoldsModelsArray(x) == IsDict(x) /\ IsList(x[2]["models"])

\* The models of a document of a supported shape, none for another shape.
ModelsOf(doc) ==
    IF HoldsModelsArray(doc) THEN doc[2]["models"][2]
    ELSE IF IsList(doc) /\ \E i \in DOMAIN doc[2] : IsDict(doc[2][i]) /\ HasKey(doc[2][i], "models")
    THEN LET i == CHOOSE i \in DOMAIN doc[2] :
                      /\ IsDict(doc[2][i]) /\ HasKey(doc[2][i], "models")
                      /\ \A j \in 1..(i - 1) : ~(IsDict(doc[2][j]) /\ HasKey(doc[2][j], "models"))
         IN IF IsList(doc[2][i][2]["models"]) THEN doc[2][i][2]["models"][2] ELSE <<>>
    ELSE <<>>

\* The elements of a model in the order of construction: edges, then vertices.
ElementsInOrder(model) ==
    (IF HasKey(model, "edges") THEN model[2]["edges"][2] ELSE <<>>)
    \o (IF HasKey(model, "vertices") THEN model[2]["vertices"][2] ELSE <<>>)

\* The places <<i, j>> of the elements (element j of model i) that carry a
\* non-empty id inside a model with a non-empty name.
KeyedPlaces(doc) ==
    LET ms == ModelsOf(doc)
    IN {pl \in UNION {{<<i, j>> : j \in DOMAIN ElementsInOrder(ms[i])} : i \in DOMAIN ms} :
           /\ Truthy(ms[pl[1]][2]["name"])
           /\ Truthy(ElementsInOrder(ms[pl[1]])[pl[2]][2]["id"])}

KeyAt(doc, pl) ==
    LET ms == ModelsOf(doc)
    IN <<ms[pl[1]][2]["name"], ElementsInOrder(ms[pl[1]])[pl[2]][2]["id"]>>

ReqsAt(doc, pl) ==
    LET ms == ModelsOf(doc) IN ElementsInOrder(ms[pl[1]])[pl[2]][2]["requirements"]

\* Place p is met before place q during construction.
Before(p, q) == p[1] < q[1] \/ (p[1] = q[1] /\ p[2] < q[2])

\* The last place of a non-empty set of places.
LastOf(places) == CHOOSE p \in places : \A q \in places : q = p \/ Before(q, p)

\* C9: the key set of the returned index is exactly the set of
\* (model.name, element.id) pairs with a non-empty model name, a non-empty id
\* and a 'requirements' field that is present and is a list.
C9_IndexKeySet ==
    (pc = "done" /\ raised = "")
        => DOMAIN req_map =
               {KeyAt(models_data, pl) :
                   pl \in {q \in KeyedPlaces(models_data) : IsList(ReqsAt(models_data, q))}}

\* Some elements gave a key and others, with the same id, gave none.
C9_Witness ==
    /\ pc = "done"
    /\ raised = ""
    /\ DOMAIN req_map # {}
    /\ \E pl \in KeyedPlaces(models_data) : ~IsList(ReqsAt(models_data, pl))
    /\ \E i \in DOMAIN ModelsOf(models_data) :
           \E j \in DOMAIN ElementsInOrder(ModelsOf(models_data)[i]) :
               <<i, j>> \notin KeyedPlaces(models_data)

\* C8 as stated: for a key carried by several elements the index entry is the
\* requirements of the last such element met during construction, also when
\* that last element declares no requirements list (then: no entry, or an
\* empty one).
C8_LastElementWins ==
    (pc = "done" /\ raised = "")
        => \A pl \in KeyedPlaces(models_data) :
               LET key == KeyAt(models_data, pl)
                   same == {q \in KeyedPlaces(models_data) : KeyAt(models_data, q) = key}
                   last == LastOf(same)
               IN IF IsList(ReqsAt(models_data, last))
                  THEN key \in DOMAIN req_map /\ req_map[key] = ReqsAt(models_data, last)[2]
                  ELSE key \notin DOMAIN req_map \/ req_map[key] = <<>>

\* C8 as amended: the index entry of a key is the requirements of the last
\* element met during construction, among the elements carrying the key whose
\* 'requirements' field is a list; elements without a requirements list
\* overwrite nothing.
C8_LastListElementWins ==
    (pc = "done" /\ raised = "")
        => \A key \in DOMAIN req_map :
               LET same == {q \in KeyedPlaces(models_data) :
                               /\ KeyAt(models_data, q) = key
                               /\ IsList(ReqsAt(models_data, q))}
               IN same # {} /\ req_map[key] = ReqsAt(models_data, LastOf(same))[2]

\* The same key on two elements with different lists, followed by an
\* element of the same key without a list: the second list is the entry.
C8_Witness ==
    /\ pc = "done"
    /\ raised = ""
    /\ \E p, q, r \in KeyedPlaces(models_data) :
           /\ Before(p, q) /\ Before(q, r)
           /\ KeyAt(models_data, p) = KeyAt(models_data, q)
           /\ KeyAt(models_data, q) = KeyAt(models_data, r)
           /\ IsList(ReqsAt(models_data, p)) /\ IsList(ReqsAt(models_data, q))
           /\ ReqsAt(models_data, p) # ReqsAt(models_data, q)
           /\ ~IsList(ReqsAt(models_data, r))
           /\ req_map[KeyAt(models_data, q)] = ReqsAt(models_data, q)[2]

\* C10: build_requirements_map never fails on the shape of its input: an
\* input that is not an object holding a 'models' array and not a sequence
\* containing such an object gives an empty index.
C10_OtherShapesGiveEmptyIndex ==
    (/\ pc = "done"
     /\ ~HoldsModelsArray(models_data)
     /\ ~(IsList(models_data) /\ \E i \in DOMAIN models_data[2] :
                                     HoldsModelsArray(models_data[2][i])))
        => raised = "" /\ req_map = EmptyMap

---------------------------------------------------------------------------
(* Merging: json.load of the steps, the index of the models, annotation *)

MaxItems == 3
MaxRuns == 2

idE1 == Str(<<"e", "1">>)
nameM == Str(<<"M">>)
nameN == Str(<<"N">>)
ReqsOld == <<Str(<<"O", "L", "D">>)>>

sE1M == Dict([id |-> idE1, modelName |-> nameM, name |-> Str(<<"e", "_", "g", "o">>)])
sE1M_Stale == Dict([id |-> idE1, modelName |-> nameM, requirements |-> List(ReqsOld)])
sE1N == Dict([id |-> idE1, modelName |-> nameN])
sNoId == Dict([modelName |-> nameM, requirements |-> List(ReqsOld)])
sNullModel == Dict([id |-> idE1, modelName |-> NULL,
                    requirements |-> Str(<<"R", "-", "9">>)])
sUnknown == Dict([id |-> Str(<<"z", "z">>), modelName |-> nameM])

StepSamples == {sE1M, sE1M_Stale, sE1N, sNoId, sNullModel, sUnknown}

\* Items of a steps array that are no step.
NonSteps == {Num(7), NULL, Str(<<"a", "b">>)}

\* Model M and model N both have an element e1; N declares it twice.
TwoModels ==
    Dict([models |-> List(<<
        Dict([name |-> nameM,
              edges |-> List(<<Dict([id |-> idE1, requirements |-> List(ReqsA)])>>)]),
        Dict([name |-> nameN,
              edges |-> List(<<Dict([id |-> idE1, requirements |-> List(ReqsA)])>>),
              vertices |-> List(<<Dict([id |-> idE1, requirements |-> List(ReqsB)])>>)])>>)])

IndexDocs == {ExampleModels, TwoModels, NULL}

\* Steps documents read as a whole: no array of steps, or a step whose id
\* is an array.
OtherStepsShapes ==
    {Num(3), Str(<<"x">>), sE1M,
     Dict([steps |-> Num(5)]),
     Dict([steps |-> NULL]),
     Dict([steps |-> sE1M]),
     List(<<sE1M, Dict([id |-> List(<<idE1>>), modelName |-> nameM])>>)}

\* The number of items of a steps array, those of its inner arrays included.
RECURSIVE ItemCount(_)
ItemCount(items) ==
    IF items = <<>> THEN 0
    ELSE 1 + (IF IsList(items[1]) THEN ItemCount(items[1][2]) ELSE 0)
           + ItemCount(Tail(items))

\* The steps array gets one more item: a step, a value that is no step, or
\* an empty inner array.
AppendItem(x) ==
    /\ pc = "input"
    /\ \/ /\ steps_data = NULL
          /\ steps_data' = List(<<x>>)
       \/ /\ IsList(steps_data)
          /\ ItemCount(steps_data[2]) < MaxItems
          /\ steps_data' = List(Append(steps_data[2], x))
    /\ UNCHANGED <<pc, raised, path, lines, start_name, start_id, paths, cases,
                   unique, models_data, req_map, runs, aliases>>
    /\ UNCHANGED <<args, registry, catalog, item_files, result, doorstop_calls>>

\* The last inner array of the steps array gets one more item.
AppendToLastPath(x) ==
    /\ pc = "input"
    /\ IsList(steps_data)
    /\ steps_data[2] # <<>>
    /\ ItemCount(steps_data[2]) < MaxItems
    /\ LET n == Len(steps_data[2])
       IN /\ IsList(steps_data[2][n])
          /\ steps_data' = [steps_data EXCEPT ![2][n][2] = Append(@, x)]
    /\ UNCHANGED <<pc, raised, path, lines, start_name, start_id, paths, cases,
                   unique, models_data, req_map, runs, aliases>>
    /\ UNCHANGED <<args, registry, catalog, item_files, result, doorstop_calls>>

\* The document is an object holding the steps array.
WrapSteps ==
    /\ pc = "input"
    /\ IsList(steps_data)
    /\ steps_data' = Dict([name |-> Str(<<"w">>), steps |-> steps_data])
    /\ pc' = "loaded"
    /\ UNCHANGED <<raised, path, lines, start_name, start_id, paths, cases,
                   unique, models_data, req_map, runs, aliases>>
    /\ UNCHANGED <<args, registry, catalog, item_files, result, doorstop_calls>>

\* The document is of another shape.
LoadSteps(doc) ==
    /\ pc = "input"
    /\ steps_data = NULL
    /\ steps_data' = doc
    /\ pc' = "loaded"
    /\ UNCHANGED <<raised, path, lines, start_name, start_id, paths, cases,
                   unique, models_data, req_map, runs, aliases>>
    /\ UNCHANGED <<args, registry, catalog, item_files, result, doorstop_calls>>

\* models_data = json.load(f); req_map = build_requirements_map(models_data)
BuildIndex(doc) ==
    /\ pc \in {"input", "loaded"}
    /\ models_data' = doc
    /\ LET r == build_requirements_map(doc)
       IN /\ raised' = r.raised
          /\ req_map' = IF r.raised = "" THEN r.value ELSE req_map
          /\ pc' = IF r.raised = "" THEN "indexed" ELSE "done"
    /\ UNCHANGED <<path, lines, start_name, start_id, paths, cases, unique,
                   steps_data, runs>>
    /\ aliases' = Aliases("model", req_map')
    /\ UNCHANGED <<args, registry, catalog, item_files, result, doorstop_calls>>

\* annotate_steps(steps_data, req_map), on the loaded document and again on
\* its own result.
Annotate ==
    /\ pc \in {"indexed", "annotated"}
    /\ raised = ""
    /\ runs < MaxRuns
    /\ LET r == annotate_steps(steps_data, req_map)
       IN /\ raised' = r.raised
          /\ steps_data' = r.value
    /\ runs' = runs + 1
    /\ pc' = "annotated"
    /\ UNCHANGED <<path, lines, start_name, start_id, paths, cases, unique,
                   models_data, req_map>>
    /\ aliases' = aliases \cup Aliases("step", req_map)
    /\ UNCHANGED <<args, registry, catalog, item_files, result, doorstop_calls>>

NextAnnotate ==
    \/ \E x \in StepSamples \cup NonSteps \cup {List(<<>>)} : AppendItem(x)
    \/ \E x \in StepSamples \cup NonSteps : AppendToLastPath(x)
    \/ WrapSteps
    \/ \E doc \in OtherStepsShapes : LoadSteps(doc)
    \/ \E doc \in IndexDocs : BuildIndex(doc)
    \/ Annotate

SpecAnnotate == Init /\ [][NextAnnotate]_vars

---------------------------------------------------------------------------
(* Properties of the annotation *)

\* The steps array of a container: the container itself, or its "steps".
StepsArray(c) ==
    IF IsList(c) THEN c[2]
    ELSE IF IsDict(c) /\ IsList(c[2]["steps"]) THEN c[2]["steps"][2]
    ELSE <<>>

\* The objects found in an array at any nesting level of arrays.
RECURSIVE ObjectsIn(_)
ObjectsIn(items) ==
    UNION {IF IsDict(items[i]) THEN {items[i]}
           ELSE IF IsList(items[i]) THEN ObjectsIn(items[i][2])
           ELSE {} : i \in DOMAIN items}

\* The array holds multiple paths: non-empty, and its first item is an array.
IsMultiplePaths(items) == items # <<>> /\ IsList(items[1])

\* The objects of an array that the disambiguation rule makes steps: the
\* objects directly in a single path, the objects directly in the array
\* entries of multiple paths.
StepsOf(items) ==
    IF IsMultiplePaths(items)
    THEN UNION {IF IsList(items[i])
                THEN {items[i][2][j] : j \in {k \in DOMAIN items[i][2] : IsDict(items[i][2][k])}}
                ELSE {} : i \in DOMAIN items}
    ELSE {items[i] : i \in {k \in DOMAIN items : IsDict(items[k])}}

Returns == pc = "annotated" /\ raised = ""

\* C4 as stated: after annotate_steps returns, every object found at any
\* nesting level of the container, mixed containers included, has a
\* 'requirements' field that is a list.
C4_EveryObjectAnnotated ==
    Returns => \A s \in ObjectsIn(StepsArray(steps_data)) : IsList(s[2]["requirements"])

\* C4 as amended: after annotate_steps returns, every object that is a
\* direct element of a single-path array, or a direct element of an array
\* entry of a multiple-paths array (bare or under 'steps'), has a
\* 'requirements' field that is a list.
C4_EveryStepAnnotated ==
    Returns => \A s \in StepsOf(StepsArray(steps_data)) : IsList(s[2]["requirements"])

\* Multiple paths under 'steps', two steps in them, one of which came with
\* requirements that were no list and with a null modelName.
C4_Witness ==
    /\ Returns
    /\ IsDict(steps_data)
    /\ IsMultiplePaths(StepsArray(steps_data))
    /\ Cardinality(StepsOf(StepsArray(steps_data))) >= 2
    /\ \E s \in StepsOf(StepsArray(steps_data)) :
           s[2]["modelName"] = NULL /\ s[2]["requirements"] = List(<<>>)

\* The requirements the annotation rule gives a step.
LookedUp(s) ==
    LET key == <<s[2]["modelName"], s[2]["id"]>>
    IN IF s[2]["id"][1] \in {"missing", "null"} \/ s[2]["modelName"][1] \in {"missing", "null"}
       THEN <<>>
       ELSE IF key \in DOMAIN req_map THEN req_map[key] ELSE <<>>

\* C5: annotating an annotated container again with the same index leaves
\* every step's 'requirements' as the first run set it, and steps with the
\* same modelName and id have the same requirements whatever they held before.
C5_ReannotationIdempotent ==
    [][(pc = "annotated" /\ pc' = "annotated" /\ raised' = "")
          => /\ steps_data' = steps_data
             /\ \A s, t \in StepsOf(StepsArray(steps_data')) :
                    (s[2]["id"] = t[2]["id"] /\ s[2]["modelName"] = t[2]["modelName"])
                        => s[2]["requirements"] = t[2]["requirements"]]_vars

\* Two runs were made over a step that came with other requirements and
\* now holds those of the index.
C5_Witness ==
    /\ Returns
    /\ runs = 2
    /\ \E s \in StepsOf(StepsArray(steps_data)) :
           /\ ~HasKey(s, "name")
           /\ s[2]["id"] = idE1 /\ s[2]["modelName"] = nameM
           /\ s[2]["requirements"] = List(ReqsA)

\* C6: an annotated step whose id or modelName is missing or null has
\* requirements []; any other has the list the index holds for
\* (modelName, id), or [] when the index has no such key. With the index of
\* model M, edge e1, requirements R-1 and R-2, the step (e1, M) has R-1, R-2.
C6_RequirementsFromIndex ==
    Returns =>
        \A s \in StepsOf(StepsArray(steps_data)) :
            /\ s[2]["requirements"] = List(LookedUp(s))
            /\ (models_data = ExampleModels /\ s[2]["id"] = idE1 /\ s[2]["modelName"] = nameM)
                   => s[2]["requirements"] = List(<<Str(<<"R", "-", "1">>), Str(<<"R", "-", "2">>)>>)

\* With the index of the example: a step found in it, a step without id and
\* a step whose key the index does not have.
C6_Witness ==
    /\ Returns
    /\ models_data = ExampleModels
    /\ \E s, t, u \in StepsOf(StepsArray(steps_data)) :
           /\ s[2]["id"] = idE1 /\ s[2]["modelName"] = nameM
           /\ s[2]["requirements"] = List(ReqsA)
           /\ t[2]["id"] = MISSING /\ t[2]["requirements"] = List(<<>>)
           /\ u[2]["id"] = idE1 /\ u[2]["modelName"] = nameN
           /\ u[2]["requirements"] = List(<<>>)


\* The container has one of the four recognized shapes: an array, or an
\* object whose "steps" is an array.
IsRecognized(c) == IsList(c) \/ (IsDict(c) /\ IsList(c[2]["steps"]))

\* C11: an input of none of the four recognized shapes (a scalar, null, an
\* object without 'steps', an object whose 'steps' is no sequence) is
\* returned by annotate_steps as it was, and nothing is raised.
C11_UnrecognizedShapeReturnedAsIs ==
    [][(pc' = "annotated" /\ ~IsRecognized(steps_data))
          => (steps_data' = steps_data /\ raised' = "")]_vars

\* annotate_steps has returned an object whose 'steps' is itself a step
\* with a key of the index, and the step has no 'requirements'.
C11_Witness ==
    /\ Returns
    /\ ~IsRecognized(steps_data)
    /\ IsDict(steps_data)
    /\ steps_data[2]["steps"] = sE1M
    /\ <<nameM, idE1>> \in DOMAIN req_map

\* No object of the array holds a list or an object as id or modelName.
HashableKeys(items) ==
    \A s \in ObjectsIn(items) : Hashable(s[2]["id"]) /\ Hashable(s[2]["modelName"])

\* Array b is array a with nothing changed but objects: same lengths, and
\* every item that is no object, in a and in the arrays a holds, is kept.
NonObjectsKept(a, b) ==
    /\ Len(a) = Len(b)
    /\ \A i \in DOMAIN a :
           IF IsList(a[i])
           THEN /\ IsList(b[i])
                /\ Len(a[i][2]) = Len(b[i][2])
                /\ \A j \in DOMAIN a[i][2] :
                       ~IsDict(a[i][2][j]) => b[i][2][j] = a[i][2][j]
           ELSE ~IsDict(a[i]) => b[i] = a[i]

\* C12: in a container of a recognized shape, an element that is no object
\* (a number, a string, null, or in multiple paths an entry of the outer
\* sequence that is no sequence) is skipped: it is left as it was, the
\* steps get their requirements and nothing is raised.
C12_NonObjectsSkipped ==
    [][(pc' = "annotated" /\ IsRecognized(steps_data)
            /\ HashableKeys(StepsArray(steps_data)))
          => /\ raised' = ""
             /\ NonObjectsKept(StepsArray(steps_data), StepsArray(steps_data'))
             /\ \A s \in StepsOf(StepsArray(steps_data')) :
                    IsList(s[2]["requirements"])]_vars

\* C18: an object whose 'steps' field holds a value that is no sequence
\* makes annotate_steps fail.
C18_NonSequenceStepsSurfaced ==
    (/\ pc = "annotated"
     /\ IsDict(steps_data)
     /\ HasKey(steps_data, "steps")
     /\ ~IsList(steps_data[2]["steps"]))
        => raised # ""


---------------------------------------------------------------------------
(* YAML files of the doorstop wrappers *)

\* A file holds a mapping <<"map", f>> (f a function over the keys it has),
\* nothing (NULL) or another value; <<"bool", b>> is a YAML boolean.

\* d.get(k, default)
YGet(d, k, default) == IF k \in DOMAIN d THEN d[k] ELSE default
\* d[k] = x
YSet(d, k, x) == [j \in DOMAIN d \cup {k} |-> IF j = k THEN x ELSE d[j]]
\* Python truthiness of a YAML value
YTruthy(x) ==
    CASE x[1] = "bool" -> x[2]
      [] x[1] = "map" -> DOMAIN x[2] # {}
      [] x[1] = "float" -> TRUE
      [] OTHER -> Truthy(x)

\* f"{n:0{width}d}"
ZeroPad(n, width) ==
    LET digits == NatDigits(n)
    IN [i \in 1..(IF width > Len(digits) THEN width - Len(digits) ELSE 0) |-> "0"]
       \o digits

\* datetime.now().date().isoformat() / date.today().isoformat()
TODAY == Str(<<"2", "0", "2", "6", "-", "1", "1", "-", "0", "3">>)

---------------------------------------------------------------------------
(* doorstop_add_plus: metadata of the new item, catalog id from the registry *)

Width == 5
MaxLast == 2

\* The registry file: missing, empty, unreadable, or "last_number: n".
RegistryStates ==
    {[file |-> f, last_number |-> 0] : f \in {"absent", "empty", "corrupt"}}
    \cup {[file |-> "map", last_number |-> n] : n \in 0..MaxLast}

\* Returns the catalog id and leaves the registry file with the number issued.
compute_next_catalog_id(reg, prefix, width) ==
    LET last_number == IF reg.file = "map" THEN reg.last_number ELSE 0
        next_number == last_number + 1
        cat_id == prefix \o <<"-">> \o ZeroPad(next_number, width)
    IN IF reg.file = "empty"
       THEN [raised |-> "TypeError", value |-> <<>>, registry |-> reg]
       ELSE [raised |-> "", value |-> cat_id,
             registry |-> [file |-> "map", last_number |-> next_number]]

\* The item file and the registry file after the call.
update_item_metadata(content, catalog_prefix, width, reg, set_catalog, dry_run) ==
    IF content[1] # "map"
    THEN [raised |-> "", item |-> content, registry |-> reg]
    ELSE
    LET data == content[2]
        no_date == ~YTruthy(YGet(data, "created_date", NULL))
        dated == IF no_date THEN YSet(data, "created_date", TODAY) ELSE data
        assign == set_catalog /\ (~YTruthy(YGet(dated, "isCatalogued", NULL))
                                  \/ ~YTruthy(YGet(dated, "catalog_id", NULL)))
        next == compute_next_catalog_id(reg, catalog_prefix, width)
        flagged == YSet(YSet(dated, "isCatalogued", <<"bool", TRUE>>),
                        "catalog_id", Str(next.value))
        catalogued == IF ~YTruthy(YGet(flagged, "catalog_date", NULL))
                      THEN YSet(flagged, "catalog_date", TODAY) ELSE flagged
        changed == no_date \/ assign
    IN IF assign /\ next.raised # ""
       THEN [raised |-> next.raised, item |-> content, registry |-> next.registry]
       ELSE [raised |-> "",
             item |-> IF changed /\ ~dry_run
                      THEN <<"map", IF assign THEN catalogued ELSE dated>>
                      ELSE content,
             registry |-> IF assign THEN next.registry ELSE reg]

---------------------------------------------------------------------------
(* dsplus add: header policy, registry counter, catalog *)

Digits == 3

\* Header titles of the catalog, in catalog order, for this document prefix.
_headers_for_prefix(cat_data, item_prefix) ==
    LET IsHeader(it) ==
            /\ it[1] = "map"
            /\ Lower(PyStr(YGet(it[2], "type", Str(<<>>)))) = <<"h", "e", "a", "d", "e", "r">>
            /\ StartsWith(PyStr(YGet(it[2], "id", Str(<<>>))), item_prefix)
            /\ YTruthy(YGet(it[2], "title", NULL))
        found == SelectSeq(cat_data.items, IsHeader)
    IN [i \in DOMAIN found |-> PyStr(found[i][2]["title"])]


\* _header_index that files an unknown label under the last header.
_header_index_OrLast(headers, label) ==
    IF \E i \in DOMAIN headers : headers[i] = label
    THEN CHOOSE i \in DOMAIN headers :
             headers[i] = label /\ \A j \in 1..(i - 1) : headers[j] # label
    ELSE Len(headers)

\* 1-based index of the first exact match; 0 stands for None.
_header_index(headers, label) ==
    IF \E i \in DOMAIN headers : headers[i] = label
    THEN CHOOSE i \in DOMAIN headers :
             headers[i] = label /\ \A j \in 1..(i - 1) : headers[j] # label
    ELSE 0

\* Catalog items of the prefix whose type is exactly the header label.
_count_items_under_header(cat_data, item_prefix, header_label) ==
    Cardinality({i \in DOMAIN cat_data.items :
        LET it == cat_data.items[i]
        IN /\ it[1] = "map"
           /\ StartsWith(PyStr(YGet(it[2], "id", Str(<<>>))), item_prefix)
           /\ YGet(it[2], "type", NULL) = Str(header_label)})


\* Documents under the root: APP-QL and its child APP-QL-CNI, shortened.
Docs == {<<"A", "-", "Q">>, <<"A", "-", "Q", "-", "C">>}

\* Item id: prefix, separator, number padded to the document's digits.
ItemId(prefix, n) == prefix \o <<"-">> \o ZeroPad(n, Digits)

\* `doorstop add` numbers the new item after the highest one of the document.
DoorstopNext(prefix, files) ==
    LET used == {n \in 1..(MaxLast + 1) : ItemId(prefix, n) \in DOMAIN files}
    IN IF used = {} THEN 1
       ELSE 1 + CHOOSE n \in used : \A m \in used : m <= n

\* The document directory is found by the catalog's location entry or by a
\* scan of the root; the catalog's locations are brought up to date and written.
get_doc_dir(doc_prefix, cat) ==
    LET locs == cat.locations
        hits == {i \in DOMAIN locs : locs[i].id = doc_prefix}
        entry == IF hits = {} THEN 0 ELSE CHOOSE i \in hits : \A j \in hits : i <= j
        loc_str == doc_prefix
    IN IF doc_prefix \notin Docs
       THEN [raised |-> "FileNotFoundError", catalog |-> cat]
       ELSE IF entry = 0
       THEN [raised |-> "",
             catalog |-> [cat EXCEPT !.locations =
                             Append(locs, [id |-> doc_prefix, location |-> loc_str])]]
       ELSE IF Strip(locs[entry].location) # loc_str
       THEN [raised |-> "",
             catalog |-> [cat EXCEPT !.locations[entry].location = loc_str]]
       ELSE [raised |-> "", catalog |-> cat]

\* Increments last_number in the registry file and returns it.
bump_registry_counter(reg) ==
    LET last == IF reg.file = "map" THEN reg.last_number ELSE 0
    IN IF reg.file = "corrupt"
       THEN [raised |-> "YAMLError", value |-> 0, registry |-> reg]
       ELSE [raised |-> "", value |-> last + 1,
             registry |-> [file |-> "map", last_number |-> last + 1]]

\* What `doorstop add` can leave in the new item file (it comes from the
\* document's defaults): nothing, a mapping without catalog fields, a mapping
\* with some or all of them.
NewItemStates ==
    LET date == Str(<<"2", "0", "2", "4", "-", "0", "1", "-", "0", "1">>)
        rq1 == Str(<<"R", "Q", "-">> \o ZeroPad(1, Width))
    IN {NULL,
        <<"map", EmptyMap>>,
        <<"map", [created_date |-> date]>>,
        <<"map", [isCatalogued |-> <<"bool", TRUE>>]>>,
        <<"map", [created_date |-> date, isCatalogued |-> <<"bool", TRUE>>,
                  catalog_id |-> rq1, catalog_date |-> date]>>,
        <<"map", [isCatalogued |-> <<"bool", TRUE>>, catalog_id |-> rq1,
                  catalog_date |-> Str(<<>>)]>>}

\* The repository before a run: catalog.yml and the item files on disk.
RepoStates ==
    LET pQL == <<"A", "-", "Q">>
        pCNI == <<"A", "-", "Q", "-", "C">>
        In == <<"I", "n">>
        Ot == <<"O", "t">>
        entry(id, type, title) ==
            <<"map", [id |-> Str(id), uid |-> Str(<<"R", "Q">>), title |-> Str(title),
                      type |-> Str(type), reqs |-> List(<<>>)]>>
        file == <<"map", [active |-> <<"bool", TRUE>>, text |-> Str(<<>>)]>>
    IN {[catalog |-> [locations |-> <<>>, items |-> <<>>],
         item_files |-> EmptyMap],
        [catalog |-> [locations |-> <<[id |-> pQL, location |-> pQL]>>,
                      items |-> <<entry(ItemId(pQL, 1), <<"h", "e", "a", "d", "e", "r">>, In)>>],
         item_files |-> [j \in {ItemId(pQL, 1)} |-> file]],
        [catalog |-> [locations |-> <<[id |-> pQL, location |-> <<"o", "l", "d">>]>>,
                      items |-> <<entry(ItemId(pCNI, 1), <<"H", "e", "a", "d", "e", "r">>, In)>>],
         item_files |-> [j \in {ItemId(pCNI, 1)} |-> file]],
        [catalog |-> [locations |-> <<>>,
                      items |-> <<Str(<<"x">>),
                                  entry(ItemId(pQL, 1), <<"h", "e", "a", "d", "e", "r">>, <<>>),
                                  entry(ItemId(pQL, 2), <<"h", "e", "a", "d", "e", "r">>, Ot),
                                  entry(ItemId(pQL, 3), Ot, <<"r">>)>>],
         item_files |-> [j \in {ItemId(pQL, 1), ItemId(pQL, 2), ItemId(pQL, 3)} |-> file]]}

---------------------------------------------------------------------------
(* Runs of the two wrappers on a repository *)

InitWrappers ==
    /\ pc = "input"
    /\ raised = ""
    /\ path = <<>>
    /\ lines = <<>>
    /\ start_name = Str(<<"v", "_", "S", "t", "a", "r", "t">>)
    /\ start_id = NONE
    /\ paths = <<>>
    /\ cases = <<>>
    /\ unique = <<>>
    /\ models_data = NULL
    /\ req_map = EmptyMap
    /\ steps_data = NULL
    /\ runs = 0
    /\ args = [tool |-> "", dry_run |-> FALSE, no_catalog |-> FALSE,
               prefix |-> <<>>, title |-> <<>>, type |-> <<>>]
    /\ registry \in RegistryStates
    /\ \E repo \in RepoStates :
          /\ catalog = repo.catalog
          /\ item_files = repo.item_files
    /\ result = [returncode |-> 0, created |-> <<>>, stdout_id |-> <<>>]
    /\ doorstop_calls = 0
    /\ aliases = {}

\* doorstop_add_plus main up to the return of `doorstop add`: exit 2 when no
\* document has the prefix, the subprocess's exit code when it failed, 0 when
\* it made no file.
AddPlusRun(prefix, dry_run, no_catalog, returncode, made) ==
    /\ pc = "input"
    /\ args' = [tool |-> "add_plus", dry_run |-> dry_run, no_catalog |-> no_catalog,
                prefix |-> prefix, title |-> <<>>, type |-> <<>>]
    /\ IF prefix \notin Docs
       THEN /\ pc' = "done"
            /\ raised' = "SystemExit"
            /\ UNCHANGED <<item_files, result, doorstop_calls>>
       ELSE /\ doorstop_calls' = doorstop_calls + 1
            /\ IF returncode # 0 \/ made = <<>>
               THEN /\ pc' = "done"
                    /\ raised' = "SystemExit"
                    /\ result' = [returncode |-> returncode, created |-> <<>>,
                                  stdout_id |-> <<>>]
                    /\ UNCHANGED item_files
               ELSE LET id == ItemId(prefix, DoorstopNext(prefix, item_files))
                    IN /\ pc' = "added"
                       /\ raised' = ""
                       /\ result' = [returncode |-> 0, created |-> id, stdout_id |-> id]
                       /\ item_files' = [j \in DOMAIN item_files \cup {id} |->
                                           IF j = id THEN made[1] ELSE item_files[j]]
    /\ UNCHANGED <<registry, catalog>>
    /\ UNCHANGED <<path, lines, start_name, start_id, paths, cases, unique,
                   models_data, req_map, steps_data, runs, aliases>>

\* doorstop_add_plus main after `doorstop add`: update_item_metadata on the
\* new item file.
AddPlusUpdate ==
    /\ pc = "added"
    /\ args.tool = "add_plus"
    /\ LET r == update_item_metadata(item_files[result.created], <<"R", "Q">>, Width,
                                     registry, ~args.no_catalog, args.dry_run)
       IN /\ item_files' = [item_files EXCEPT ![result.created] = r.item]
          /\ registry' = r.registry
          /\ raised' = r.raised
    /\ pc' = "done"
    /\ UNCHANGED <<args, catalog, result, doorstop_calls>>
    /\ UNCHANGED <<path, lines, start_name, start_id, paths, cases, unique,
                   models_data, req_map, steps_data, runs, aliases>>

\* dsplus add main up to the return of `doorstop add`: the required files, the
\* document directory, the header policy, then the subprocess. named: the
\* subprocess's output names the new item in the form main looks for.
DsplusRun(prefix, title, type, returncode, made, named) ==
    /\ pc = "input"
    /\ args' = [tool |-> "dsplus", dry_run |-> FALSE, no_catalog |-> FALSE,
                prefix |-> prefix, title |-> title, type |-> type]
    /\ LET g == get_doc_dir(prefix, catalog)
           headers == _headers_for_prefix(g.catalog, prefix)
           is_header == Lower(Strip(type)) = <<"h", "e", "a", "d", "e", "r">>
           header_label_for_item == Strip(type)
           id == ItemId(prefix, DoorstopNext(prefix, item_files))
       IN IF registry.file = "absent" \/ g.raised # ""
          THEN /\ pc' = "done"
               /\ raised' = "FileNotFoundError"
               /\ UNCHANGED <<catalog, item_files, result, doorstop_calls>>
          ELSE IF ~is_header /\ (headers = <<>>
                                 \/ _header_index(headers, header_label_for_item) = 0)
          THEN /\ pc' = "done"
               /\ raised' = "SystemExit"
               /\ catalog' = g.catalog
               /\ UNCHANGED <<item_files, result, doorstop_calls>>
          ELSE /\ catalog' = g.catalog
               /\ doorstop_calls' = doorstop_calls + 1
               /\ IF returncode # 0
                  THEN /\ pc' = "done"
                       /\ raised' = "SystemExit"
                       /\ result' = [returncode |-> returncode, created |-> <<>>,
                                     stdout_id |-> <<>>]
                       /\ UNCHANGED item_files
                  ELSE /\ pc' = "added"
                       /\ raised' = ""
                       /\ result' = [returncode |-> 0,
                                     created |-> IF made = <<>> THEN <<>> ELSE id,
                                     stdout_id |-> IF made # <<>> /\ named THEN id ELSE <<>>]
                       /\ item_files' = IF made = <<>> THEN item_files
                                        ELSE [j \in DOMAIN item_files \cup {id} |->
                                                 IF j = id THEN made[1] ELSE item_files[j]]
    /\ UNCHANGED registry
    /\ UNCHANGED <<path, lines, start_name, start_id, paths, cases, unique,
                   models_data, req_map, steps_data, runs, aliases>>

\* dsplus add main after `doorstop add`: find the new item file, bump the
\* registry, patch the item, append the catalog entry.
DsplusFinish ==
    /\ pc = "added"
    /\ args.tool = "dsplus"
    /\ LET item_prefix == args.prefix
           item_title == args.title
           is_header == Lower(Strip(args.type)) = <<"h", "e", "a", "d", "e", "r">>
           header_label_for_item == IF is_header THEN item_title ELSE Strip(args.type)
           headers == _headers_for_prefix(catalog, item_prefix)
           H == IF is_header THEN Len(headers) + 1
                ELSE _header_index(headers, header_label_for_item)
           K == IF is_header THEN 0
                ELSE _count_items_under_header(catalog, item_prefix,
                                               header_label_for_item) + 1
           last_number_before == IF registry.file = "map" THEN registry.last_number ELSE 0
           guessed == ItemId(item_prefix, last_number_before + 1)
           doorstop_id == IF guessed \notin DOMAIN item_files /\ result.stdout_id # <<>>
                          THEN result.stdout_id ELSE guessed
           bumped == bump_registry_counter(registry)
           catalog_uid == <<"R", "Q", "-">> \o ZeroPad(bumped.value, Width)
           loaded == item_files[doorstop_id]
           SetDefault(d, k, x) == IF k \in DOMAIN d THEN d ELSE YSet(d, k, x)
           SetIfNot(d, k, x) == IF YTruthy(YGet(d, k, NULL)) THEN d ELSE YSet(d, k, x)
           d1 == YSet(YSet(IF loaded[1] = "map" THEN loaded[2] ELSE EmptyMap,
                           "uid", Str(doorstop_id)), "catalog_id", Str(catalog_uid))
           d2 == SetIfNot(d1, "created_date", TODAY)
           d3 == IF YGet(d2, "reviewed", NULL)
                     \in {NULL, Str(<<>>), Str(<<"n", "u", "l", "l">>)}
                 THEN YSet(d2, "reviewed", TODAY) ELSE d2
           d4 == SetIfNot(SetIfNot(d3, "form_id", Str(item_prefix)),
                          "form_name", Str(item_prefix))
           d5 == YSet(d4, "header", Str(header_label_for_item))
           d6 == IF item_title # <<>> THEN YSet(d5, "title", Str(item_title)) ELSE d5
           d7 == SetDefault(d6, "text", Str(<<>>))
           d8 == IF is_header
                 THEN YSet(YSet(d7, "derived", <<"bool", FALSE>>),
                           "normative", <<"bool", FALSE>>)
                 ELSE SetDefault(SetDefault(d7, "derived", <<"bool", TRUE>>),
                                 "normative", <<"bool", TRUE>>)
           d9 == YSet(SetDefault(d8, "active", <<"bool", TRUE>>),
                      "level", <<"float", <<H, K>>>>)
           d10 == SetDefault(d9, "links", List(<<>>))
           item_data == IF YGet(d10, "tags", NULL)[1] = "list" THEN d10
                        ELSE YSet(d10, "tags", List(<<>>))
           cat_entry == <<"map", [id |-> Str(doorstop_id), uid |-> Str(catalog_uid),
                                  title |-> Str(item_title),
                                  type |-> Str(IF is_header
                                               THEN <<"h", "e", "a", "d", "e", "r">>
                                               ELSE header_label_for_item),
                                  reqs |-> List(<<>>)]>>
           exists == \E i \in DOMAIN catalog.items :
                        /\ catalog.items[i][1] = "map"
                        /\ YGet(catalog.items[i][2], "id", NULL) = Str(doorstop_id)
       IN IF registry.file = "corrupt"
          THEN /\ raised' = "YAMLError"
               /\ UNCHANGED <<registry, item_files, catalog>>
          ELSE IF doorstop_id \notin DOMAIN item_files
          THEN /\ raised' = "RuntimeError"
               /\ UNCHANGED <<registry, item_files, catalog>>
          ELSE /\ raised' = ""
               /\ registry' = bumped.registry
               /\ item_files' = [item_files EXCEPT ![doorstop_id] = <<"map", item_data>>]
               /\ catalog' = IF exists THEN catalog
                             ELSE [catalog EXCEPT !.items = Append(@, cat_entry)]
    /\ pc' = "done"
    /\ UNCHANGED <<args, result, doorstop_calls>>
    /\ UNCHANGED <<path, lines, start_name, start_id, paths, cases, unique,
                   models_data, req_map, steps_data, runs, aliases>>

NextWrappers ==
    \/ \E prefix \in Docs \cup {<<"Z", "-", "Z">>}, dry_run \in BOOLEAN,
          no_catalog \in BOOLEAN, returncode \in {0, 1},
          made \in {<<>>} \cup {<<c>> : c \in NewItemStates} :
          AddPlusRun(prefix, dry_run, no_catalog, returncode, made)
    \/ AddPlusUpdate
    \/ \E prefix \in Docs \cup {<<"Z", "-", "Z">>}, title \in {<<"I", "n">>, <<>>},
          type \in {<<"h", "e", "a", "d", "e", "r">>, <<"H", "e", "a", "d", "e", "r", " ">>,
                    <<"I", "n">>, <<" ", "I", "n">>, <<"i", "n">>, <<"O", "t">>},
          returncode \in {0, 1},
          made \in {<<>>} \cup {<<c>> : c \in NewItemStates}, named \in BOOLEAN :
          DsplusRun(prefix, title, type, returncode, made, named)
    \/ DsplusFinish

SpecWrappers == InitWrappers /\ [][NextWrappers]_vars

---------------------------------------------------------------------------
(* Properties of the doorstop wrappers *)

\* C16: with --dry-run, update_item_metadata leaves the item file and the
\* registry file (its last_number) as they were, whatever the item held.
C16_DryRunWritesNothing ==
    [][(pc = "added" /\ args.tool = "add_plus" /\ args.dry_run /\ pc' = "done")
       => (item_files' = item_files /\ registry' = registry)]_vars


\* --type asks for a header bootstrap: 'header', whatever its case and the
\* blanks around it.
IsHeaderType(type) == Lower(Strip(type)) = <<"h", "e", "a", "d", "e", "r">>

\* The catalog holds a header entry with exactly this title whose id begins
\* with the document prefix.
HeaderRegistered(cat, prefix, label) ==
    \E i \in DOMAIN cat.items :
        LET it == cat.items[i]
        IN /\ it[1] = "map"
           /\ Lower(PyStr(YGet(it[2], "type", Str(<<>>)))) = <<"h", "e", "a", "d", "e", "r">>
           /\ StartsWith(PyStr(YGet(it[2], "id", Str(<<>>))), prefix)
           /\ YTruthy(YGet(it[2], "title", NULL))
           /\ PyStr(YGet(it[2], "title", NULL)) = label

---------------------------------------------------------------------------
(* The text helpers of path_cleanup.py, applied to one edge and one vertex *)

\* An edge step followed by a vertex step, as json.load gives them: names
\* with and without the e_ / v_ prefix, with empty segments, camel case and
\* blanks; actions and requirements absent, well formed and malformed.
InitText ==
    /\ pc = "input"
    /\ raised = ""
    /\ \E en \in {<<"e", "_", "l", "o", "a", "d", "_", "d", "e", "f", "a", "u", "l", "t",
                    "_", "d", "a", "t", "a">>,
                  <<"e", "_">>,
                  <<"e", "_", "_", "G", "o", "_", "N", "O", "W">>,
                  <<"l", "o", "a", "d", "D", "a", "t", "a">>,
                  <<"e", "_", "e", "_", "x">>},
          vn \in {<<"v", "_", "C", "o", "n", "t", "a", "c", "t", "D", "e", "t", "a", "i",
                    "l", "F", "o", "r", "m">>,
                  <<"v", "C", "o", "n", "t", "a", "c", "t", "F", "o", "r", "m">>,
                  <<"v", "_">>,
                  <<"v", "x", "_", "y">>,
                  <<"v", "_", "C", "o", "n", "t", "a", "c", "t", " ", "D", "e", "t", "a",
                    "i", "l">>,
                  <<"v", "_", " ">>},
          ac \in {MISSING,
                  List(<<Str(<<"x", "=", "1", ";">>)>>),
                  List(<<Str(<<"x", "=", "1", ";", ";">>), Str(<<"y">>)>>),
                  List(<<Str(<<" ", "a", "=", "2", " ", ";", " ">>), Num(5), Str(<<"J",
                    "s", "o", "n", "C", "o", "n", "t", "e", "x", "t", ".", "x", ";">>),
                    Str(<<";">>), Str(<<"b">>)>>),
                  List(<<Num(5)>>)},
          er \in {MISSING,
                  List(<<Str(<<"R", "-", "1", ",", " ", "R", "-", "2">>)>>),
                  List(<<Str(<<"R", "-", "2">>), Str(<<" ", "R", "-", "1", ",", ",", "R",
                    "-", "2", " ">>)>>),
                  List(<<Num(7), NULL, Str(<<"R", "-", "1">>)>>),
                  Str(<<"R", "-", "3", ",", "R", "-", "1">>)},
          vr \in {MISSING,
                  List(<<Str(<<"R", "-", "1", ",", " ", "R", "-", "2">>)>>),
                  List(<<Str(<<"R", "-", "2">>), Str(<<" ", "R", "-", "1", ",", ",", "R",
                    "-", "2", " ">>)>>),
                  List(<<Num(7), NULL, Str(<<"R", "-", "1">>)>>),
                  Str(<<"R", "-", "3", ",", "R", "-", "1">>)} :
          path = <<Dict([name |-> Str(en), actions |-> ac, requirements |-> er]),
                   Dict([name |-> Str(vn), requirements |-> vr])>>
    /\ lines = <<>>
    /\ start_name = Str(<<"v", "_", "S", "t", "a", "r", "t">>)
    /\ start_id = NONE
    /\ paths = <<>>
    /\ cases = <<>>
    /\ unique = <<>>
    /\ models_data = NULL
    /\ req_map = EmptyMap
    /\ steps_data = NULL
    /\ runs = 0
    /\ args = [tool |-> "", dry_run |-> FALSE, no_catalog |-> FALSE,
               prefix |-> <<>>, title |-> <<>>, type |-> <<>>]
    /\ registry = [file |-> "absent", last_number |-> 0]
    /\ catalog = [locations |-> <<>>, items |-> <<>>]
    /\ item_files = EmptyMap
    /\ result = [returncode |-> 0, created |-> <<>>, stdout_id |-> <<>>]
    /\ doorstop_calls = 0
    /\ aliases = {}

\* One helper is applied to the two steps, as build_step_strings_for_path
\* applies it: the edge's name is formatted, the vertex's name is formatted,
\* the edge's actions are summarised, or the requirements of the edge and of
\* the vertex are normalised. pc records which helper ran, lines its result.
Describe(fn) ==
    /\ pc = "input"
    /\ LET r == CASE fn = "edge" ->
                     Returned(<<_format_edge_description(path[1][2]["name"][2])>>)
                  [] fn = "vertex" ->
                     Returned(<<_format_vertex_description(path[2][2]["name"][2])>>)
                  [] fn = "actions" ->
                     LET changed == _summarise_actions(path[1])
                     IN IF changed.raised # "" THEN changed
                        ELSE Returned(<<changed.value>>)
                  [] fn = "requirements" ->
                     Returned(_normalise_requirements(<<path[1], path[2]>>))
       IN /\ lines' = r.value
          /\ raised' = r.raised
    /\ pc' = fn
    /\ UNCHANGED <<path, start_name, start_id, paths, cases, unique,
                   models_data, req_map, steps_data, runs, aliases>>
    /\ UNCHANGED <<args, registry, catalog, item_files, result, doorstop_calls>>

NextText ==
    \/ \E fn \in {"edge", "vertex", "actions", "requirements"} : Describe(fn)
    \/ Render

SpecText == InitText /\ [][NextText]_vars


---------------------------------------------------------------------------
(* Properties of the text helpers *)

\* The members of a finite set of numbers, in ascending order.
RECURSIVE Ascending(_)
Ascending(S) ==
    IF S = {} THEN <<>>
    ELSE LET m == CHOOSE x \in S : \A y \in S : x <= y
         IN <<m>> \o Ascending(S \ {m})

\* The items of q at the positions I, in order.
Pick(q, I) == LET at == Ascending(I) IN [k \in DOMAIN at |-> q[at[k]]]

\* The pieces of s between the positions I (and its two ends), in order:
\* the characters at the positions I belong to no piece.
PiecesBetween(s, I) ==
    LET cuts == I \cup {0, Len(s) + 1}
        from == Ascending(cuts \ {Len(s) + 1})
    IN [k \in DOMAIN from |->
           LET to == CHOOSE b \in cuts :
                         b > from[k] /\ \A c \in cuts : c > from[k] => b <= c
           IN SubSeq(s, from[k] + 1, to - 1)]

\* s without the blanks at its two ends.
Trimmed(s) ==
    LET ink == {i \in DOMAIN s : s[i] \notin {" ", "\t", "\n"}}
    IN IF ink = {} THEN <<>>
       ELSE SubSeq(s, CHOOSE a \in ink : \A b \in ink : a <= b,
                      CHOOSE a \in ink : \A b \in ink : b <= a)

\* The non-empty strings of q, each at its first occurrence only.
FirstOccurrences(q) ==
    Pick(q, {i \in DOMAIN q : q[i] # <<>> /\ \A j \in 1..(i - 1) : q[j] # q[i]})

\* The text of s after the first occurrence of mark (s itself without one).
After(s, mark) ==
    LET at == {i \in 0..(Len(s) - Len(mark)) : SubSeq(s, i + 1, i + Len(mark)) = mark}
    IN IF at = {} THEN s
       ELSE SubSeq(s, (CHOOSE i \in at : \A j \in at : i <= j) + Len(mark) + 1, Len(s))

\* The identifiers one entry of a requirements list stands for: a string is
\* cut at its commas and the pieces are trimmed, a number is written out,
\* null stands for nothing.
StatedEntry(e) ==
    IF IsStr(e)
    THEN LET ps == PiecesBetween(e[2], {i \in DOMAIN e[2] : e[2][i] = ","})
         IN [k \in DOMAIN ps |-> Trimmed(ps[k])]
    ELSE IF e[1] = "num" THEN <<IntStr(e[2])>>
    ELSE <<>>

\* The identifiers of a step's requirements: those of the entries of its
\* list, a lone string being a list of one entry; none without the field
\* and none for no step.
StatedRequirements(step) ==
    IF ~IsDict(step) THEN <<>>
    ELSE LET got == step[2]["requirements"]
             entries == IF IsList(got) THEN got[2]
                        ELSE IF IsStr(got) /\ got[2] # <<>> THEN <<got>>
                        ELSE <<>>
         IN Concat([k \in DOMAIN entries |-> StatedEntry(entries[k])])

\* The identifiers an edge line lists: the edge's, then its target's.
StatedIdentifiers(edge, target) ==
    FirstOccurrences(StatedRequirements(edge) \o StatedRequirements(target))

\* C21: an edge line ends with ' -> meets requirements: ...' iff the
\* normalised requirements of the edge step and of its target vertex are
\* non-empty; the identifiers listed are the edge's entries followed by the
\* target's entries, each string entry cut at its commas and trimmed, empty
\* strings dropped, repeated strings kept at their first occurrence only,
\* and they are joined by ', '.
C21_RequirementsClause ==
    /\ (pc = "requirements" /\ raised = "")
           => lines = StatedIdentifiers(path[1], path[2])
    /\ Rendered =>
           \A k \in 1..Cardinality(EdgePositions(path)) :
               LET i == NthEdge(path, k)
                   line == lines[StartLines(path) + k]
                   ids == StatedIdentifiers(path[i], TargetOf(path, i))
                   listed == After(line, MEETS)
               IN /\ Contains(line, MEETS) <=> ids # <<>>
                  /\ ids # <<>> =>
                         PiecesBetween(listed, {j \in DOMAIN listed : listed[j] = ","})
                             = [n \in DOMAIN ids |->
                                   IF n = 1 THEN ids[n] ELSE <<" ">> \o ids[n]]

\* An edge line lists the edge's R-2 and R-1, once each, and then the 7 of
\* its target vertex, whose R-1 is a repetition.
C21_Witness ==
    /\ Rendered
    /\ Len(lines) = 3
    /\ path[1][2]["requirements"][1] = "list"
    /\ Len(path[1][2]["requirements"][2]) = 2
    /\ StrOf(After(lines[2], MEETS)) = "R-2, R-1, 7"


JSONCONTEXT == <<"J", "s", "o", "n", "C", "o", "n", "t", "e", "x", "t">>

\* The items of q joined by ', '.
CommaJoined(q) ==
    Concat([k \in DOMAIN q |-> IF k = 1 THEN q[k] ELSE <<",", " ">> \o q[k]])

\* s without its last character when that is a semicolon.
WithoutOneSemicolon(s) ==
    IF s # <<>> /\ s[Len(s)] = ";" THEN SubSeq(s, 1, Len(s) - 1) ELSE s

\* s without the semicolons at its end, however many.
WithoutEndSemicolons(s) ==
    LET other == {i \in DOMAIN s : s[i] # ";"}
    IN IF other = {} THEN <<>>
       ELSE SubSeq(s, 1, CHOOSE a \in other : \A b \in other : b <= a)

\* The changed clause of a step for a given cleaning of a trimmed action:
\* the cleaned string entries of `actions` that are not empty and do not
\* contain 'JsonContext', joined by ', '; 'None' when there is none.
ChangedClause(step, Clean(_)) ==
    LET got == step[2]["actions"]
        acts == IF IsList(got) THEN got[2] ELSE <<>>
        cleaned == [k \in DOMAIN acts |->
                       IF IsStr(acts[k]) THEN Clean(Trimmed(acts[k][2])) ELSE <<>>]
        kept == Pick(cleaned, {k \in DOMAIN cleaned :
                                  cleaned[k] # <<>> /\ ~Contains(cleaned[k], JSONCONTEXT)})
    IN IF kept = <<>> THEN <<"N", "o", "n", "e">> ELSE CommaJoined(kept)

\* C22 as stated: the changed clause is built from the string entries of
\* `actions`, each trimmed and relieved of a single trailing semicolon,
\* those then empty or containing 'JsonContext' dropped, joined in order
\* with ', '; it is 'None' when no entry survives or `actions` is absent.
C22_SingleSemicolon ==
    (pc = "actions" /\ raised = "")
        => lines = <<ChangedClause(path[1], WithoutOneSemicolon)>>

\* What the code gives instead: the changed clause is built
\* from the string entries of `actions`, each trimmed and relieved of all
\* the semicolons at its end, those then empty or containing 'JsonContext'
\* dropped, joined in order with ', '; it is 'None' when no entry survives
\* or `actions` is absent; the edge line carries it after ' -> changed: '.
C22_ChangedClause ==
    /\ (pc = "actions" /\ raised = "")
           => lines = <<ChangedClause(path[1], WithoutEndSemicolons)>>
    /\ Rendered =>
           \A k \in 1..Cardinality(EdgePositions(path)) :
               LET i == NthEdge(path, k)
               IN After(lines[StartLines(path) + k], CHANGED)
                      = ChangedClause(path[i], WithoutEndSemicolons)
                        \o RequirementsClause(path, i)


\* The non-empty pieces of s between its underscores, in order.
Segments(s) ==
    LET ps == PiecesBetween(s, {i \in DOMAIN s : s[i] = "_"})
    IN Pick(ps, {k \in DOMAIN ps : ps[k] # <<>>})

\* The items of q joined by single spaces.
SpaceJoined(q) ==
    Concat([k \in DOMAIN q |-> IF k = 1 THEN q[k] ELSE <<" ">> \o q[k]])

\* The word w with its first letter in upper case and the others in lower case.
LeadingCapital(w) == [i \in DOMAIN w |-> IF i = 1 THEN ToUpper(w[i]) ELSE ToLower(w[i])]

\* The edge display name the rule gives for a raw name.
StatedEdgeName(raw) ==
    LET rest == IF Len(raw) >= 2 /\ raw[1] = "e" /\ raw[2] = "_"
                THEN SubSeq(raw, 3, Len(raw)) ELSE raw
        segs == Segments(rest)
    IN IF segs = <<>> THEN raw
       ELSE SpaceJoined([k \in DOMAIN segs |->
                            IF k = 1 THEN LeadingCapital(segs[k])
                            ELSE [i \in DOMAIN segs[k] |-> ToLower(segs[k][i])]])

\* C23: the edge display name of a raw name is the raw name without one
\* leading 'e_', cut at '_' with the empty segments discarded, the first
\* segment capitalised and the later ones lower-cased, joined by single
\* spaces; the raw name itself when no segment is left. So
\* 'e_load_default_data' gives 'Load default data', 'e__Go_NOW' gives
\* 'Go now', 'e_e_x' gives 'E x', 'e_' gives 'e_', and the edge line of a
\* rendered path starts with the display name after its step number.
C23_EdgeDisplayName ==
    /\ pc = "edge" =>
           LET raw == path[1][2]["name"][2]
           IN /\ raised = ""
              /\ lines = <<StatedEdgeName(raw)>>
              /\ StrOf(raw) = "e_load_default_data" => StrOf(lines[1]) = "Load default data"
              /\ StrOf(raw) = "e__Go_NOW" => StrOf(lines[1]) = "Go now"
              /\ StrOf(raw) = "e_e_x" => StrOf(lines[1]) = "E x"
              /\ StrOf(raw) = "e_" => StrOf(lines[1]) = "e_"
    /\ Rendered =>
           \A k \in 1..Cardinality(EdgePositions(path)) :
               LET i == NthEdge(path, k)
               IN StartsWith(lines[StartLines(path) + k],
                             StepPrefix(StartLines(path) + k)
                             \o StatedEdgeName(path[i][2]["name"][2]) \o RESULTSIN)

\* The name 'e__Go_NOW' has been formatted: 'Go now'.
C23_Witness ==
    /\ pc = "edge"
    /\ StrOf(path[1][2]["name"][2]) = "e__Go_NOW"
    /\ StrOf(lines[1]) = "Go now"


\* The pieces of the segment seg, cut before every upper-case letter that
\* is not its first character.
CamelPieces(seg) ==
    LET starts == {1} \cup {i \in 2..Len(seg) : IsUpper(seg[i])}
        from == Ascending(starts)
    IN [k \in DOMAIN from |->
           SubSeq(seg, from[k],
                  IF k = Len(from) THEN Len(seg) ELSE from[k + 1] - 1)]

\* The raw vertex name without its 'v_', or without its 'v' when an
\* upper-case letter follows it directly.
WithoutVertexPrefix(raw) ==
    IF Len(raw) >= 2 /\ raw[1] = "v" /\ raw[2] = "_" THEN SubSeq(raw, 3, Len(raw))
    ELSE IF Len(raw) >= 2 /\ raw[1] = "v" /\ IsUpper(raw[2]) THEN SubSeq(raw, 2, Len(raw))
    ELSE raw

\* The vertex display name for a given treatment of the pieces: the words
\* capitalised and joined by single spaces, the raw name without a word.
VertexNameOf(raw, Words(_)) ==
    LET segs == Segments(WithoutVertexPrefix(raw))
        words == Concat([k \in DOMAIN segs |-> Words(CamelPieces(segs[k]))])
    IN IF words = <<>> THEN raw
       ELSE SpaceJoined([k \in DOMAIN words |-> LeadingCapital(words[k])])

\* Every piece is a word.
EveryPiece(ps) == ps

\* The pieces are trimmed and the blank ones are no words.
TrimmedPieces(ps) ==
    Pick([k \in DOMAIN ps |-> Trimmed(ps[k])], {k \in DOMAIN ps : Trimmed(ps[k]) # <<>>})

\* C24 as stated: the vertex display name of a raw name is the raw name
\* without a leading 'v_' (or without the leading 'v' that an upper-case
\* letter follows directly), cut at '_' with the empty segments discarded,
\* each segment cut before every upper-case letter except at its first
\* position, each word capitalised, the words joined by single spaces; the
\* raw name itself when no word results.
C24_VertexDisplayName ==
    pc = "vertex" =>
        /\ raised = ""
        /\ lines = <<VertexNameOf(path[2][2]["name"][2], EveryPiece)>>

\* What the code gives instead: the pieces are trimmed before they are
\* capitalised and a blank piece is no word. So 'v_ContactDetailForm' gives
\* 'Contact Detail Form', 'vContactForm' gives 'Contact Form', 'vx_y' gives
\* 'Vx Y', 'v_' gives 'v_', 'v_Contact Detail' gives 'Contact Detail' and
\* 'v_ ' gives 'v_ '.
C24_TrimmedWords ==
    pc = "vertex" =>
        LET raw == path[2][2]["name"][2]
        IN /\ raised = ""
           /\ lines = <<VertexNameOf(raw, TrimmedPieces)>>
           /\ StrOf(raw) = "v_ContactDetailForm" => StrOf(lines[1]) = "Contact Detail Form"
           /\ StrOf(raw) = "vContactForm" => StrOf(lines[1]) = "Contact Form"
           /\ StrOf(raw) = "vx_y" => StrOf(lines[1]) = "Vx Y"
           /\ StrOf(raw) = "v_" => StrOf(lines[1]) = "v_"
           /\ StrOf(raw) = "v_Contact Detail" => StrOf(lines[1]) = "Contact Detail"
           /\ StrOf(raw) = "v_ " => StrOf(lines[1]) = "v_ "

\* C24 on the names without a blank: there the stated rule is what the
\* code gives.
C24_NamesWithoutBlank ==
    (pc = "vertex" /\ \A i \in DOMAIN path[2][2]["name"][2] :
                          path[2][2]["name"][2][i] # " ")
        => lines = <<VertexNameOf(path[2][2]["name"][2], EveryPiece)>>


---------------------------------------------------------------------------
(* The index reused: the caller changes lists after the index was built *)

\* The entry a caller appends to a list it holds.
ADDED == Str(<<"X">>)

\* step["requirements"].append(...) by the caller, on the n-th step of an
\* annotated list of steps: the entry is added to that list object, and so
\* to the index entry if that is the same object.
ModifyStepList(n) ==
    /\ pc = "annotated"
    /\ raised = ""
    /\ IsList(steps_data)
    /\ n \in DOMAIN steps_data[2]
    /\ LET step == steps_data[2][n]
       IN /\ IsDict(step)
          /\ IsList(step[2]["requirements"])
          /\ \A i \in DOMAIN step[2]["requirements"][2] :
                 step[2]["requirements"][2][i] # ADDED
          /\ steps_data' = [steps_data EXCEPT
                               ![2][n][2]["requirements"][2] = Append(@, ADDED)]
          /\ LET key == <<Get(step, "modelName"), Get(step, "id")>>
             IN req_map' = IF <<"step", key>> \in aliases /\ key \in DOMAIN req_map
                           THEN [req_map EXCEPT ![key] = Append(@, ADDED)]
                           ELSE req_map
    /\ UNCHANGED <<pc, raised, path, lines, start_name, start_id, paths, cases,
                   unique, models_data, runs, aliases>>
    /\ UNCHANGED <<args, registry, catalog, item_files, result, doorstop_calls>>

\* element["requirements"].append(...) by the caller, on an element of the
\* models document the index was built from: the entry is added to that
\* list object, and so to the index entry if that is the same object.
ModifyModelList(mi, kind, ei) ==
    /\ pc \in {"indexed", "annotated"}
    /\ IsDict(models_data)
    /\ IsList(models_data[2]["models"])
    /\ mi \in DOMAIN models_data[2]["models"][2]
    /\ LET model == models_data[2]["models"][2][mi]
       IN /\ IsDict(model)
          /\ IsList(model[2][kind])
          /\ ei \in DOMAIN model[2][kind][2]
          /\ LET element == model[2][kind][2][ei]
                 key == <<Get(model, "name"), Get(element, "id")>>
             IN /\ IsDict(element)
                /\ IsList(element[2]["requirements"])
                /\ \A i \in DOMAIN element[2]["requirements"][2] :
                       element[2]["requirements"][2][i] # ADDED
                /\ models_data' =
                       [models_data EXCEPT
                           ![2]["models"][2][mi][2][kind][2][ei][2]["requirements"][2]
                               = Append(@, ADDED)]
                /\ req_map' = IF <<"model", key>> \in aliases /\ key \in DOMAIN req_map
                              THEN [req_map EXCEPT ![key] = Append(@, ADDED)]
                              ELSE req_map
    /\ UNCHANGED <<pc, raised, path, lines, start_name, start_id, paths, cases,
                   unique, steps_data, runs, aliases>>
    /\ UNCHANGED <<args, registry, catalog, item_files, result, doorstop_calls>>

\* A list of steps is loaded, the index is built from a models document,
\* the steps are annotated once or twice, and in between the caller changes
\* the lists it holds.
NextReuse ==
    \/ \E doc \in {List(<<sE1M, sUnknown>>), List(<<sE1M_Stale, sE1N>>),
                   List(<<sNoId, sE1M>>)} : LoadSteps(doc)
    \/ \E doc \in IndexDocs : BuildIndex(doc)
    \/ Annotate
    \/ \E n \in 1..2 : ModifyStepList(n)
    \/ \E mi \in 1..2, kind \in {"edges", "vertices"}, ei \in 1..1 :
           ModifyModelList(mi, kind, ei)

SpecReuse == Init /\ [][NextReuse]_vars

---------------------------------------------------------------------------
(* What the annotation leaves alone *)

\* An item without its 'requirements' if it is an object, as it is otherwise.
WithoutRequirements(x) ==
    IF IsDict(x) THEN <<"dict", [x[2] EXCEPT !["requirements"] = MISSING]>> ELSE x

\* An array with the 'requirements' taken off the objects that the
\* disambiguation rule makes steps, and everything else as it is.
OutlineOfArray(items) ==
    IF IsMultiplePaths(items)
    THEN [i \in DOMAIN items |->
             IF IsList(items[i])
             THEN List([j \in DOMAIN items[i][2] |-> WithoutRequirements(items[i][2][j])])
             ELSE items[i]]
    ELSE [i \in DOMAIN items |-> WithoutRequirements(items[i])]

\* A container with the 'requirements' taken off its steps; a value of no
\* recognized shape has no step and is its own outline.
Outline(c) ==
    IF IsList(c) THEN List(OutlineOfArray(c[2]))
    ELSE IF IsDict(c) /\ IsList(c[2]["steps"])
    THEN <<"dict", [c[2] EXCEPT !["steps"] = List(OutlineOfArray(c[2]["steps"][2]))]>>
    ELSE c

\* C26: annotate_steps hands back the container it was given, changed in
\* place: the shape, the number of paths and of steps and their order are
\* the same, every field of every step other than 'requirements' is
\* unchanged, and what is not an annotated step is not modified at all.
C26_OnlyRequirementsChange ==
    [][(pc' = "annotated") => (Outline(steps_data') = Outline(steps_data))]_vars

\* annotate_steps has returned a list in which the step (e1, M), named
\* e_go, holds the requirements of the index next to an item that is no
\* step.
C26_Witness ==
    /\ Returns
    /\ IsList(steps_data)
    /\ <<nameM, idE1>> \in DOMAIN req_map
    /\ \E i, j \in DOMAIN steps_data[2] :
           /\ steps_data[2][i] = SetKey(sE1M, "requirements", List(req_map[<<nameM, idE1>>]))
           /\ steps_data[2][j] = Num(7)


---------------------------------------------------------------------------
(* Steps that are neither edge nor vertex *)

\* The step has no name, or a name that starts with neither 'e_' nor 'v_'.
Unclassified(step) ==
    \/ ~HasKey(step, "name")
    \/ /\ IsStr(step[2]["name"])
       /\ ~(Len(step[2]["name"][2]) >= 2 /\ step[2]["name"][2][1] \in {"e", "v"}
              /\ step[2]["name"][2][2] = "_")

\* The path without its unclassified steps.
Classified(p) == Pick(p, {i \in DOMAIN p : ~Unclassified(p[i])})

=============================================================================
